---------------------------- MODULE Spec2Model ----------------------------
(***************************************************************************)
(* Model of the dynapptor/Modbus master: the request API (ModbusMaster),   *)
(* the ADU pool and pending queue, the slave-set cursor (Slaves), the RTU  *)
(* engine (ModbusRTUMaster::loop) and the TCP client (ClientItem::loop).   *)
(*                                                                         *)
(* One clock, now, stands for both micros() and millis().  One engine is   *)
(* instantiated per behaviour (engine = "RTU" or "TCP"), as a sketch does. *)
(* The user callback only observes: every invocation is appended to cbs,   *)
(* the callbacks delivered by the step that was last taken.                *)
(***************************************************************************)
EXTENDS Integers, Sequences, FiniteSets, TLC

VARIABLES
  engine,    \* "RTU" | "TCP": which master object the sketch created
  adu,       \* the ADU pool: _adu[i]
  queue,     \* the pending queue: ModbusRTUMaster::_queue or ClientItem::_queue
  rtu,       \* ModbusRTUMaster: _state, _currentADU, _errorReceive, _lastByteTime
  cli,       \* the ClientItem of the TCP client (one configured slave)
  tid,       \* ADUTCP::_transactionId (static)
  stream,    \* bytes available() on the Stream / Client
  line,      \* bytes the slave has put on the line, not yet available()
  cbs,       \* callbacks invoked by the last step: <<[id, err, data]>>
  wire,      \* request frames written and not yet taken up by a slave or server
  tx,        \* the frames the last step wrote
  hung,      \* a request call or loop call recursed without bound
  calls,     \* number of request-issuing calls made so far
  frames,    \* number of frames written so far
  op,        \* the step that was last taken
  sketch     \* a Slaves object the sketch itself iterates: the ids it gave to
             \* set(), the object, and what its getNext() calls returned

vars == <<engine, adu, queue, rtu, cli, tid, stream, line, wire, cbs, tx,
          hung, calls, frames, op, sketch>>

---------------------------------------------------------------------------
(* Bounds of the model *)

RtuQueueSize == 1      \* ModbusRTUMaster::begin queueSize: ADU pool and queue
ADUPoolSize == 2       \* ModbusTCPClient::begin ADUPoolSize
ClientQueueSize == 1   \* ClientItem maxCount (queue and sent window)
MaxCalls == 2          \* request-issuing calls per behaviour
MaxSlave == 2          \* slave ids used by requests: 0..MaxSlave
FrameTimeout == 2      \* _frameTimeout, in clock units
ByteTimeout == 1       \* _byteTimeout
ResponseTimeout == 2   \* _responseTimeout
MaxFrames == 2         \* frames written per behaviour
MaxStream == 12        \* bytes the port buffers
TcpResponseTimeout == 2  \* ClientItem::_responseTimeout
TidSpace == 4          \* transaction ids wrap here (the code: 65536)

---------------------------------------------------------------------------
(* Program constants (ModbusDef.h, Slaves.h) *)

MB_FC_READ_COILS == 1
MB_FC_READ_DISCRETE_INPUTS == 2
MB_FC_READ_HOLDING_REGISTERS == 3
MB_FC_READ_INPUT_REGISTERS == 4
MB_FC_WRITE_SINGLE_COIL == 5
MB_FC_WRITE_SINGLE_REGISTER == 6
MB_FC_READ_EXCEPTION_STATUS == 7
MB_FC_DIAGNOSTICS == 8
MB_FC_WRITE_MULTIPLE_COILS == 15
MB_FC_WRITE_MULTIPLE_REGISTERS == 16
MB_FC_MASK_WRITE_REGISTER == 22
MB_FC_READ_AND_WRITE_REGISTERS == 23

MB_EX_SUCCESS == 0
MB_EX_ILLEGAL_DATA_ADDRESS == 2
MB_EX_LIB_TOO_MANY_DATA == 12
MB_EX_LIB_TOO_FEW_DATA == 13
MB_EX_LIB_RESPONSE_TIMEOUT == 14
MB_EX_LIB_INVALID_SLAVE == 17
MB_EX_LIB_INVALID_FUNCTION == 18
MB_EX_LIB_INVALID_SUB_FUNCTION == 19
MB_EX_LIB_INVALID_ADDRESS == 20
MB_EX_LIB_INVALID_DATA == 21
MB_EX_LIB_INVALID_BYTE_LENGTH == 23
MB_EX_LIB_CRC == 25
MB_EX_LIB_NOT_SUPPORTED == 28
MB_EX_LIB_QUEUE_FULL == 29
MB_EX_LIB_TCP_SENT_BUFFER_FULL == 30
MB_EX_LIB_TCP_NO_CLIENT_AVAILABLE_FOR_THE_SLAVE == 31
MB_EX_LIB_NO_MORE_FREE_ADU == 32
MB_EX_LIB_BUFFER_IS_TOO_SMALL == 33
MB_EX_LIB_INVALID_MBAP_TRANSACTION_ID == 41
MB_EX_LIB_INVALID_MBAP_PROTOCOL_ID == 42
MB_EX_LIB_INVALID_MBAP_UNIT_ID == 44

MB_MAX_READ_COILS == 2000
MB_MAX_READ_REGISTERS == 125
MB_MAX_WRITE_READ_REGISTERS == 121
MB_ADU_RTU_HEADER_LEN == 1
MB_ADU_RTU_CRC_LEN == 2
MB_ADU_MBAP_LEN == 7
MB_MAX_SLAVE_ID == 247
MB_PDU_MAX_SIZE == 253

SLAVE_NULL == 253
SLAVE_EOF == 254
SLAVE_BOF == 255

---------------------------------------------------------------------------
(* Bytes *)

highByte(w) == (w \div 256) % 256
lowByte(w) == w % 256

\* exclusive or, bit by bit
RECURSIVE XorBits(_, _)
XorBits(a, b) ==
  IF a = 0 THEN b
  ELSE IF b = 0 THEN a
  ELSE (((a % 2) + (b % 2)) % 2) + 2 * XorBits(a \div 2, b \div 2)

\* the register after n shifts with the reflected polynomial 0xA001
RECURSIVE CrcShift(_, _)
CrcShift(crc, n) ==
  IF n = 0 THEN crc
  ELSE CrcShift(IF crc % 2 = 1 THEN XorBits(crc \div 2, 40961) ELSE crc \div 2, n - 1)

\* both tabulated once
XorNibble == [a \in 0..15 |-> [b \in 0..15 |-> XorBits(a, b)]]

Xor8(a, b) == XorNibble[a % 16][b % 16] + 16 * XorNibble[a \div 16][b \div 16]

Xor(a, b) == Xor8(a % 256, b % 256) + 256 * Xor8(a \div 256, b \div 256)

CrcTable == [x \in 0..255 |-> CrcShift(x, 8)]

\* the element of a one-element set
The(S) == CHOOSE x \in S : TRUE

\* the register after bytes k.. of buf, each byte folded in before the next
RECURSIVE CrcFold(_, _, _)
CrcFold(crc, buf, k) ==
  IF k > Len(buf) THEN crc
  ELSE The({CrcFold(c, buf, k + 1) :
              c \in {Xor(crc \div 256, CrcTable[Xor8(crc % 256, buf[k])])}})

\* CRC-16/Modbus: reflected polynomial 0xA001, seed 0xFFFF
crc16(buf) == CrcFold(65535, buf, 1)

\* the message with its CRC appended, low byte first
crc16Set(msg) == msg \o <<lowByte(crc16(msg)), highByte(crc16(msg))>>

\* the trailing two bytes are the CRC of the bytes before them
crc16Check(msg) ==
  /\ Len(msg) >= 2
  /\ LET c == crc16(SubSeq(msg, 1, Len(msg) - 2))
     IN msg[Len(msg) - 1] = lowByte(c) /\ msg[Len(msg)] = highByte(c)

Min(S) == CHOOSE x \in S : \A y \in S : x <= y

Take(s, n) == SubSeq(s, 1, IF n < Len(s) THEN n ELSE Len(s))
Drop(s, n) == SubSeq(s, n + 1, Len(s))

\* byte k (from 0) of a buffer
At(buf, k) == IF k + 1 <= Len(buf) THEN buf[k + 1] ELSE 0

\* the host is little-endian (isBigEndian)
HostBigEndian == FALSE

---------------------------------------------------------------------------
(* Slaves: the bitmap is the set mask; active is the cursor *)

NoSlaves == [mask |-> {}, active |-> SLAVE_BOF, delay |-> 0, repeatDelay |-> -1]

SlavesGetRepeat(s) == s.repeatDelay > -1

\* set(slaveId): ids above MB_MAX_SLAVE_ID are ignored
SlavesSet(s, slaveId) ==
  IF slaveId > MB_MAX_SLAVE_ID THEN s ELSE [s EXCEPT !.mask = @ \cup {slaveId}]

SlavesValid(s) == s.mask # {}

\* an iteration that starts over at every call
SlavesNextIdFromStart(s) ==
  IF {i \in s.mask : i <= MB_MAX_SLAVE_ID} # {}
    THEN Min({i \in s.mask : i <= MB_MAX_SLAVE_ID}) ELSE SLAVE_EOF

\* the id getNext() returns
SlavesNextId(s) ==
  LET start == IF s.active = SLAVE_BOF THEN 0 ELSE s.active + 1
      ahead == {i \in s.mask : i >= start /\ i <= MB_MAX_SLAVE_ID}
      all == {i \in s.mask : i <= MB_MAX_SLAVE_ID}
  IN IF ahead # {} THEN Min(ahead)
     ELSE IF SlavesGetRepeat(s) /\ all # {} THEN Min(all)
     ELSE SLAVE_EOF

\* the set after getNext(): the cursor moves unless EOF is returned
SlavesGetNext(s) ==
  IF SlavesNextId(s) = SLAVE_EOF THEN s ELSE [s EXCEPT !.active = SlavesNextId(s)]

\* peek(): as getNext() without moving, the wrap search stopping at active
SlavesPeek(s) ==
  LET start == IF s.active = SLAVE_BOF THEN 0 ELSE s.active + 1
      ahead == {i \in s.mask : i >= start /\ i <= MB_MAX_SLAVE_ID}
      back == {i \in s.mask : i <= s.active}
  IN IF ahead # {} THEN Min(ahead)
     ELSE IF SlavesGetRepeat(s) /\ back # {} THEN Min(back)
     ELSE SLAVE_EOF

---------------------------------------------------------------------------
(* PDU: the fields of one pooled ADU *)

MB_PDU_MAX_RESPONSE_LEN == 7

FreshADU ==
  [used |-> FALSE,          \* _used
   cb |-> FALSE,            \* _callback.valid()
   err |-> 0,               \* _err
   pdu |-> <<>>,            \* _TXPDUbuffer, as the last builder wrote it
   txLen |-> 0,             \* _TXPDUbufferLen
   head |-> [k \in 1..MB_PDU_MAX_RESPONSE_LEN |-> 0],   \* _PDUresponseHead[k-1]
   expLen |-> 0,            \* _expectedResponseLen
   elemSize |-> 0,          \* _elemSize
   dataBegin |-> 0,         \* _dataBegin
   dataLen |-> 0,           \* _dataLen
   queuedTime |-> 0,        \* _queuedTime
   delayToSend |-> 0,       \* _delayToSend
   slave |-> 0,             \* _slave
   slaves |-> NoSlaves,     \* _slaves
   frame |-> <<>>,          \* the TX ADU frame as setHead/setCRC or setMBAP left it
   rx |-> <<>>,             \* the RX ADU frame received so far
   sentTime |-> 0]          \* ADUTCP::_sentTime

\* PDU::clear (and ADURTU::clear: _responseLen = 0); buffers, the response
\* head and _slaves are left as they are
PduClear(a) ==
  [a EXCEPT !.cb = FALSE, !.txLen = 0, !.dataBegin = 0, !.dataLen = 0,
            !.err = 0, !.expLen = 0, !.elemSize = 0, !.used = FALSE,
            !.delayToSend = 0, !.queuedTime = 0, !.slave = 0,
            !.rx = IF engine = "RTU" THEN <<>> ELSE @]

\* a request builder's result on ADU a: the error it returns, and the ADU
Built(a, e) == [err |-> e, a |-> a]
Failed(a, e) == [err |-> e, a |-> [a EXCEPT !.cb = TRUE, !.err = e]]

PDUSize == MB_PDU_MAX_SIZE

createReadState(a, fn, addr, count) ==
  IF count = 0 THEN Failed(a, MB_EX_LIB_TOO_FEW_DATA)
  ELSE IF count > MB_MAX_READ_COILS THEN Failed(a, MB_EX_LIB_TOO_MANY_DATA)
  ELSE IF PDUSize < 5 \/ PDUSize < 2 + ((count + 7) \div 8)
    THEN Failed(a, MB_EX_LIB_BUFFER_IS_TOO_SMALL)
  ELSE Built([a EXCEPT !.cb = TRUE,
                !.pdu = <<fn, highByte(addr), lowByte(addr), highByte(count), lowByte(count)>>,
                !.txLen = 5,
                !.head = [@ EXCEPT ![1] = fn, ![2] = ((count + 7) \div 8) % 256],
                !.expLen = (2 + ((count + 7) \div 8)) % 256], MB_EX_SUCCESS)

toRegisterCount(byteCount) == (((byteCount + 1) \div 2)) % 256

createReadRegisters(a, fn, addr, count, size) ==
  LET regCount == (count * toRegisterCount(size)) % 256
      byteCount == regCount * 2
      a1 == [a EXCEPT !.elemSize = size]
  IN IF count = 0 THEN Failed(a1, MB_EX_LIB_TOO_FEW_DATA)
     ELSE IF regCount > MB_MAX_READ_REGISTERS THEN Failed(a1, MB_EX_LIB_TOO_MANY_DATA)
     ELSE IF PDUSize < 5 \/ PDUSize < 2 + byteCount
       THEN Failed(a1, MB_EX_LIB_BUFFER_IS_TOO_SMALL)
     ELSE Built([a1 EXCEPT !.cb = TRUE,
                   !.pdu = <<fn, highByte(addr), lowByte(addr), highByte(regCount), lowByte(regCount)>>,
                   !.txLen = 5,
                   !.head = [@ EXCEPT ![1] = fn, ![2] = byteCount % 256],
                   !.expLen = (2 + byteCount) % 256], MB_EX_SUCCESS)

\* the five bytes of a request that the response echoes
Echo5(a, fn, b1, b2, b3, b4) ==
  [a EXCEPT !.cb = TRUE,
            !.pdu = <<fn, b1, b2, b3, b4>>,
            !.txLen = 5,
            !.head = [@ EXCEPT ![1] = fn, ![2] = b1, ![3] = b2, ![4] = b3, ![5] = b4],
            !.expLen = 5]

createWriteSingleCoil(a, addr, value) ==
  IF PDUSize < 5 THEN Failed(a, MB_EX_LIB_BUFFER_IS_TOO_SMALL)
  ELSE Built(Echo5(a, MB_FC_WRITE_SINGLE_COIL, highByte(addr), lowByte(addr),
                   IF value THEN 255 ELSE 0, 0), MB_EX_SUCCESS)

createWriteSingleRegister(a, addr, value) ==
  IF PDUSize < 5 THEN Failed(a, MB_EX_LIB_BUFFER_IS_TOO_SMALL)
  ELSE Built(Echo5(a, MB_FC_WRITE_SINGLE_REGISTER, highByte(addr), lowByte(addr),
                   highByte(value), lowByte(value)), MB_EX_SUCCESS)

createReadExceptionStatus(a) ==
  IF PDUSize < 2 THEN Failed(a, MB_EX_LIB_BUFFER_IS_TOO_SMALL)
  ELSE Built([a EXCEPT !.cb = TRUE,
                !.pdu = <<MB_FC_READ_EXCEPTION_STATUS>>,
                !.txLen = 1,
                !.head = [@ EXCEPT ![1] = MB_FC_READ_EXCEPTION_STATUS],
                !.expLen = 2], MB_EX_SUCCESS)

createDiagnostics(a, subFunction, value) ==
  IF subFunction > 20 \/ (subFunction > 4 /\ subFunction < 10)
    THEN Failed(a, MB_EX_LIB_INVALID_SUB_FUNCTION)
  ELSE IF PDUSize < 5 THEN Failed(a, MB_EX_LIB_BUFFER_IS_TOO_SMALL)
  ELSE Built(Echo5(a, MB_FC_DIAGNOSTICS, highByte(subFunction), lowByte(subFunction),
                   highByte(value), lowByte(value)), MB_EX_SUCCESS)

createMaskWriteRegister(a, addr, andMask, orMask) ==
  IF PDUSize < 7 THEN Failed(a, MB_EX_LIB_BUFFER_IS_TOO_SMALL)
  ELSE Built([a EXCEPT !.cb = TRUE,
                !.pdu = <<MB_FC_MASK_WRITE_REGISTER, highByte(addr), lowByte(addr),
                          highByte(andMask), lowByte(andMask),
                          highByte(orMask), lowByte(orMask)>>,
                !.txLen = 7,
                !.head = [k \in 1..MB_PDU_MAX_RESPONSE_LEN |->
                            <<MB_FC_MASK_WRITE_REGISTER, highByte(addr), lowByte(addr),
                              highByte(andMask), lowByte(andMask),
                              highByte(orMask), lowByte(orMask)>>[k]],
                !.expLen = 7], MB_EX_SUCCESS)

\* PDU::convertToBigEndianRegisters: elemCount elements of elemSize bytes in
\* host order become padded big-endian registers; FALSE when dest is short
convertToBigEndianRegistersOn(src, elemCount, elemSize, destLen, bigEndian) ==
  LET paddedSize == IF elemSize % 2 = 0 THEN elemSize ELSE elemSize + 1
      paddedTotal == elemCount * paddedSize
      Byte(i, j) ==
        IF bigEndian
          THEN IF j < elemSize THEN At(src, i * elemSize + j) ELSE 0
        ELSE IF j % 2 = 0
          THEN IF j + 1 < elemSize THEN At(src, i * elemSize + j + 1) ELSE 0
        ELSE IF j - 1 < elemSize THEN At(src, i * elemSize + j - 1) ELSE 0
  IN IF elemSize = 0 \/ destLen < paddedTotal THEN [ok |-> FALSE, dest |-> <<>>]
     ELSE [ok |-> TRUE,
           dest |-> [k \in 1..paddedTotal |->
                       Byte((k - 1) \div paddedSize, (k - 1) % paddedSize)]]

\* with isBigEndian as setIsBigEndian() has set it on this host
convertToBigEndianRegisters(src, elemCount, elemSize, destLen) ==
  convertToBigEndianRegistersOn(src, elemCount, elemSize, destLen, HostBigEndian)

createReadWriteMultipleRegisters(a, readAddr, readCount, readSize, writeAddr, writeData, writeCount, writeSize) ==
  LET paddedSize == IF writeSize % 2 = 0 THEN writeSize ELSE writeSize + 1
      totalWriteBytes == (writeCount * paddedSize) % 65536
      writeRegCount == totalWriteBytes \div 2
      readByteCount == (readCount * readSize) % 65536
      totalLen == (10 + totalWriteBytes) % 65536
      a1 == [a EXCEPT !.elemSize = readSize]
      conv == convertToBigEndianRegisters(writeData, writeCount, writeSize, PDUSize - 10)
  IN IF readCount = 0 \/ writeCount = 0 THEN Failed(a1, MB_EX_LIB_TOO_FEW_DATA)
     ELSE IF readCount > MB_MAX_READ_REGISTERS THEN Failed(a1, MB_EX_LIB_TOO_MANY_DATA)
     ELSE IF writeRegCount > MB_MAX_WRITE_READ_REGISTERS
       THEN Failed(a1, MB_EX_LIB_TOO_MANY_DATA)
     ELSE IF PDUSize < totalLen THEN Failed(a1, MB_EX_LIB_BUFFER_IS_TOO_SMALL)
     ELSE IF ~conv.ok THEN Failed(a1, MB_EX_LIB_INVALID_DATA)
     ELSE Built([a1 EXCEPT !.cb = TRUE,
                   !.pdu = <<MB_FC_READ_AND_WRITE_REGISTERS,
                             highByte(readAddr), lowByte(readAddr),
                             highByte(readCount), lowByte(readCount),
                             highByte(writeAddr), lowByte(writeAddr),
                             highByte(writeRegCount), lowByte(writeRegCount),
                             totalWriteBytes % 256>> \o conv.dest,
                   !.txLen = totalLen,
                   !.head = [@ EXCEPT ![1] = MB_FC_READ_AND_WRITE_REGISTERS,
                                      ![2] = readByteCount % 256],
                   !.expLen = (2 + readByteCount) % 256], MB_EX_SUCCESS)

MB_MAX_WRITE_REGISTERS == 123

\* PDU::createWriteHoldingRegister<T> with sizeof(T) = size; count is uint8_t
createWriteHoldingRegister(a, addr, src, count, size) ==
  LET paddedSize == IF size % 2 = 0 THEN size ELSE size + 1
      totalBytes == (count * paddedSize) % 65536
      regCount == totalBytes \div 2
      conv == convertToBigEndianRegisters(src, count, size, PDUSize - 6)
  IN IF count = 0 THEN Failed(a, MB_EX_LIB_TOO_FEW_DATA)
     ELSE IF regCount > MB_MAX_WRITE_REGISTERS THEN Failed(a, MB_EX_LIB_TOO_MANY_DATA)
     ELSE IF PDUSize < 6 + totalBytes THEN Failed(a, MB_EX_LIB_BUFFER_IS_TOO_SMALL)
     ELSE IF ~conv.ok THEN Failed(a, MB_EX_LIB_INVALID_DATA)
     ELSE Built([a EXCEPT !.cb = TRUE,
                   !.pdu = <<MB_FC_WRITE_MULTIPLE_REGISTERS, highByte(addr), lowByte(addr),
                             highByte(regCount), lowByte(regCount), totalBytes % 256>>
                           \o conv.dest,
                   !.txLen = 6 + totalBytes,
                   !.head = [@ EXCEPT ![1] = MB_FC_WRITE_MULTIPLE_REGISTERS,
                                      ![2] = highByte(addr), ![3] = lowByte(addr),
                                      ![4] = highByte(regCount), ![5] = lowByte(regCount)],
                   !.expLen = 5], MB_EX_SUCCESS)

---------------------------------------------------------------------------
(* Response decoding *)

HdrLen == IF engine = "RTU" THEN MB_ADU_RTU_HEADER_LEN ELSE MB_ADU_MBAP_LEN

\* PDU::convertFromBigEndianRegistersInPlace on the data bytes: the bytes of
\* elemCount elements of elemSize bytes, padding dropped.  Of the register
\* <<hi, lo>> at offset j, temp[j] takes loByte and temp[j + 1] hiByte, and
\* loByte is lo, hiByte is hi, for either value of isBigEndian
convertFromBigEndianRegistersInPlace(buffer, elemCount, size, bigEndian) ==
  LET paddedSize == IF size % 2 = 0 THEN size ELSE size + 1
      hi(i, j) == At(buffer, i * paddedSize + j)
      lo(i, j) == At(buffer, i * paddedSize + j + 1)
      reg(i, j) == hi(i, j) * 256 + lo(i, j)
      loByte(i, j) == IF bigEndian THEN lo(i, j) ELSE lowByte(reg(i, j))
      hiByte(i, j) == IF bigEndian THEN hi(i, j) ELSE highByte(reg(i, j))
      Elem(i) == [j \in 1..size |->
                    IF (j - 1) % 2 = 0 THEN loByte(i, j - 1) ELSE hiByte(i, j - 2)]
      flat == [k \in 1..(elemCount * size) |-> Elem((k - 1) \div size)[((k - 1) % size) + 1]]
  IN flat

\* the outcome of PDU::invoke on ADU a before its callCallback: the ADU with
\* _err, _dataBegin, _dataLen set and the data converted in place
Decoded(a) ==
  LET P == Drop(a.rx, HdrLen)
      fn == At(P, 0)
      H(k) == a.head[k + 1]
      Fail(e) == [a EXCEPT !.err = e]
      Zero(e) == [a EXCEPT !.err = e, !.dataBegin = 0, !.dataLen = 0]
  IN IF a.err # 0 THEN [a EXCEPT !.dataBegin = 0, !.dataLen = 0]
     ELSE IF fn = H(0) + 128 THEN Zero(At(P, 1))
     ELSE IF fn # H(0) THEN Zero(MB_EX_LIB_INVALID_FUNCTION)
     ELSE IF fn \in {MB_FC_READ_COILS, MB_FC_READ_DISCRETE_INPUTS, MB_FC_READ_HOLDING_REGISTERS,
                     MB_FC_READ_INPUT_REGISTERS, MB_FC_READ_AND_WRITE_REGISTERS}
       THEN IF At(P, 1) # H(1) THEN Fail(MB_EX_LIB_INVALID_BYTE_LENGTH)
            ELSE LET n == At(P, 1)
                 IN IF a.elemSize > 0 /\ n % 2 = 0
                      THEN LET cnt == n \div a.elemSize
                               paddedSize == IF a.elemSize % 2 = 0 THEN a.elemSize
                                             ELSE a.elemSize + 1
                               converts == /\ cnt * paddedSize <= PDUSize
                                           /\ cnt * a.elemSize <= PDUSize
                                           /\ a.elemSize <= 32
                               conv == convertFromBigEndianRegistersInPlace(
                                          SubSeq(P, 3, Len(P)), cnt, a.elemSize, HostBigEndian)
                           IN IF ~converts THEN [a EXCEPT !.dataBegin = 2, !.dataLen = n]
                              ELSE [a EXCEPT !.dataBegin = 2, !.dataLen = cnt * a.elemSize,
                                        !.rx = Take(a.rx, HdrLen + 2) \o conv
                                               \o Drop(a.rx, HdrLen + 2 + Len(conv))]
                      ELSE [a EXCEPT !.dataBegin = 2, !.dataLen = n]
     ELSE IF fn \in {MB_FC_WRITE_SINGLE_COIL, MB_FC_WRITE_SINGLE_REGISTER}
       THEN IF At(P, 1) # H(1) \/ At(P, 2) # H(2) THEN Fail(MB_EX_LIB_INVALID_ADDRESS)
            ELSE IF At(P, 3) # H(3) \/ At(P, 4) # H(4) THEN Fail(MB_EX_LIB_INVALID_DATA)
            ELSE a
     ELSE IF fn = MB_FC_READ_EXCEPTION_STATUS
       THEN [a EXCEPT !.dataBegin = 1, !.dataLen = 1]
     ELSE IF fn = MB_FC_DIAGNOSTICS
       THEN IF At(P, 1) # H(1) \/ At(P, 2) # H(2) THEN Fail(MB_EX_LIB_INVALID_SUB_FUNCTION)
            ELSE [a EXCEPT !.dataBegin = 3, !.dataLen = 2]
     ELSE IF fn \in {MB_FC_WRITE_MULTIPLE_COILS, MB_FC_WRITE_MULTIPLE_REGISTERS}
       THEN IF At(P, 1) # H(1) \/ At(P, 2) # H(2) THEN Fail(MB_EX_LIB_INVALID_ADDRESS)
            ELSE IF At(P, 3) # H(3) \/ At(P, 4) # H(4) THEN Fail(MB_EX_LIB_INVALID_BYTE_LENGTH)
            ELSE a
     ELSE IF fn = MB_FC_MASK_WRITE_REGISTER
       THEN IF At(P, 1) # H(1) \/ At(P, 2) # H(2) THEN Fail(MB_EX_LIB_INVALID_ADDRESS)
            ELSE IF At(P, 3) # H(3) \/ At(P, 4) # H(4) \/ At(P, 5) # H(5) \/ At(P, 6) # H(6)
              THEN Fail(MB_EX_LIB_INVALID_DATA)
            ELSE a
     ELSE Fail(MB_EX_LIB_NOT_SUPPORTED)

\* what a callback sees of the PDU it is handed: id 0 is a synthetic PDU.
\* _dataBegin and _dataLen may be left over from an earlier visit and reach
\* past the bytes received in this one; those bytes read as 0 here
getData(a) == [k \in 1..a.dataLen |-> At(Drop(a.rx, HdrLen), a.dataBegin + k - 1)]

Seen(i, a) == [id |-> i, err |-> a.err, data |-> getData(a)]

Synthetic(e) == [id |-> 0, err |-> e, data |-> <<>>]

---------------------------------------------------------------------------
(* ADUQueue: a ring of ADU ids, 0 for nullptr *)

EmptyQueue(size) ==
  [items |-> [k \in 0..(size - 1) |-> 0], head |-> 0, tail |-> 0, count |-> 0, size |-> size]

\* the clock reads `now` at every step; a tick makes the timestamps held in
\* the state one older instead, down to 0, which is at least every interval ago
now == ResponseTimeout

\* a line monitor, where the behaviour starts with one: wireTime is the time
\* of the last byte on the serial line, written by the master or arrived at
\* its port
Stamp(s) == IF "wireTime" \in DOMAIN s THEN [s EXCEPT !.wireTime = now] ELSE s

\* the monitor at a loop() call with result R: a frame written or late bytes
\* discarded are bytes on the line; stale counts the bytes that were in the
\* port when the last frame was written and are there still
Monitor(s, R) ==
  IF "wireTime" \notin DOMAIN s THEN s
  ELSE [wireTime |-> IF R.tx # <<>> \/ Len(R.line) # Len(line) THEN now ELSE s.wireTime,
        stale |-> IF R.tx # <<>> THEN Len(R.stream)
                  ELSE IF R.stream = <<>> THEN 0 ELSE s.stale]

Aged(s) ==
  IF "wireTime" \in DOMAIN s THEN [s EXCEPT !.wireTime = IF @ > 0 THEN @ - 1 ELSE 0] ELSE s

on_ms(last, interval) == now - last >= interval

on_us(last, interval) == now - last >= interval

\* an add that does not look at the capacity
QueueAddUnbounded(q, i) ==
  [ok |-> TRUE,
   q |-> [q EXCEPT !.items[q.tail] = i, !.tail = (q.tail + 1) % q.size,
                   !.count = @ + 1]]

QueueAdd(q, i) ==
  IF q.count >= q.size \/ i = 0 THEN [ok |-> FALSE, q |-> q]
  ELSE [ok |-> TRUE,
        q |-> [q EXCEPT !.items[q.tail] = i, !.tail = (q.tail + 1) % q.size,
                        !.count = @ + 1]]

QueueIsEmpty(q) == q.count = 0

\* the ring positions readReady/hasReady scan, from the head
QueueScan(q) == [k \in 1..q.count |-> (q.head + k - 1) % q.size]

QueueReadyAt(pool, q, pos) ==
  q.items[pos] # 0 /\ on_ms(pool[q.items[pos]].queuedTime, pool[q.items[pos]].delayToSend)

QueueHasReady(pool, q) ==
  \E k \in 1..q.count : QueueReadyAt(pool, q, QueueScan(q)[k])

\* a readReady that picks the first ready entry, whatever its delay
QueueReadyIndexFirst(pool, q) ==
  QueueScan(q)[CHOOSE k \in 1..q.count :
                 /\ QueueReadyAt(pool, q, QueueScan(q)[k])
                 /\ \A m \in 1..(k - 1) : ~QueueReadyAt(pool, q, QueueScan(q)[m])]

\* the position readReady picks: the first ready entry, in scan order, with
\* the smallest _delayToSend
QueueReadyIndex(pool, q) ==
  LET ready == {k \in 1..q.count : QueueReadyAt(pool, q, QueueScan(q)[k])}
      best == CHOOSE k \in ready :
                \A m \in ready :
                  \/ pool[q.items[QueueScan(q)[k]]].delayToSend
                       < pool[q.items[QueueScan(q)[m]]].delayToSend
                  \/ /\ pool[q.items[QueueScan(q)[k]]].delayToSend
                          = pool[q.items[QueueScan(q)[m]]].delayToSend
                     /\ k <= m
  IN QueueScan(q)[best]

\* a read that leaves the ADU in the slot it frees
QueueReadKeep(q) ==
  IF q.count = 0 \/ q.items[q.head] = 0 THEN [ok |-> FALSE, item |-> 0, q |-> q]
  ELSE [ok |-> TRUE, item |-> q.items[q.head],
        q |-> [q EXCEPT !.head = (q.head + 1) % q.size, !.count = @ - 1]]

QueueRead(q) ==
  IF q.count = 0 \/ q.items[q.head] = 0 THEN [ok |-> FALSE, item |-> 0, q |-> q]
  ELSE [ok |-> TRUE, item |-> q.items[q.head],
        q |-> [q EXCEPT !.items[q.head] = 0, !.head = (q.head + 1) % q.size,
                        !.count = @ - 1]]

QueueReadReady(pool, q) ==
  IF q.count = 0 \/ ~QueueHasReady(pool, q) THEN [ok |-> FALSE, item |-> 0, q |-> q]
  ELSE LET r == QueueReadyIndex(pool, q)
           swapped == [q EXCEPT !.items[r] = q.items[q.head], !.items[q.head] = q.items[r]]
       IN QueueRead(swapped)

---------------------------------------------------------------------------
(* Enqueueing and completion.  A world is the part of the state a call
   chain sendPDU -> callCallback -> repeatIfNeeded -> sendPDU works on. *)

World ==
  [adu |-> adu, queue |-> queue, tid |-> tid, cbs |-> <<>>, hung |-> FALSE]

ADUs == 1..(IF engine = "RTU" THEN RtuQueueSize ELSE ADUPoolSize)

\* the caller's stack is finite: a chain that nests deeper than every member
\* of a slave set can account for never returns
Fuel == MaxSlave + 4

\* int32_t to uint32_t: a negative delay becomes a huge one (2^32 + d in the
\* code, 2^31 + d within the integers of the model checker)
ToUint32(d) == IF d < 0 THEN 2147483647 + d + 1 ELSE d

\* ADURTU::setHead, ADURTU::setCRC and _responseLen = 0
setHead(a, slave) ==
  [a EXCEPT !.frame = crc16Set(<<slave>> \o Take(a.pdu, a.txLen)), !.rx = <<>>]

\* ADUTCP::setMBAP with the incremented transaction id t
setMBAP(a, slave, t) ==
  [a EXCEPT !.frame = <<highByte(t), lowByte(t), 0, 0, 0, (a.txLen + 1) % 256, slave>>
                       \o Take(a.pdu, a.txLen)]

\* the client that serves a slave id
ClientId == 1

RECURSIVE sendPDU(_, _, _, _)
RECURSIVE callCallback(_, _, _)
RECURSIVE repeatIfNeeded(_, _, _)

\* ModbusRTUMaster::sendPDU and ModbusTCPClient::sendPDU
sendPDU(w, i, slave, fuel) ==
  IF fuel = 0 THEN [ok |-> FALSE, w |-> [w EXCEPT !.hung = TRUE]]
  ELSE The({
    IF engine = "TCP" /\ slave # ClientId
      THEN [ok |-> FALSE,
            w |-> callCallback(
                    [w1 EXCEPT !.adu[i].err = MB_EX_LIB_TCP_NO_CLIENT_AVAILABLE_FOR_THE_SLAVE],
                    i, fuel - 1)]
    ELSE IF ~QueueAdd(w1.queue, i).ok
      THEN [ok |-> FALSE,
            w |-> callCallback([w1 EXCEPT !.adu[i].err = MB_EX_LIB_QUEUE_FULL], i, fuel - 1)]
    ELSE [ok |-> TRUE, w |-> [w1 EXCEPT !.queue = QueueAdd(w1.queue, i).q]] :
    w1 \in {IF engine = "RTU"
              THEN [w EXCEPT !.adu[i] = setHead(@, slave)]
              ELSE [w EXCEPT !.adu[i] = setMBAP(@, slave, (w.tid + 1) % TidSpace),
                             !.tid = (w.tid + 1) % TidSpace]}})

\* PDU::callCallback
callCallback(w, i, fuel) ==
  The({IF ~v.adu[i].cb THEN v
       ELSE The({IF r.ok THEN r.w ELSE [r.w EXCEPT !.adu[i] = PduClear(@)] :
                 r \in {repeatIfNeeded([v EXCEPT !.cbs = Append(@, Seen(i, v.adu[i]))],
                                       i, fuel)}}) :
       v \in {w}})

\* ADURTU::repeatIfNeeded and ADUTCP::repeatIfNeeded
repeatIfNeeded(w, i, fuel) ==
  LET s == w.adu[i].slaves
      prev == s.active
      next == SlavesNextId(s)
  IN IF ~SlavesValid(s) THEN [ok |-> FALSE, w |-> w]
     ELSE IF next # SLAVE_EOF /\ next # SLAVE_NULL
       THEN sendPDU([w EXCEPT !.adu[i].slaves = SlavesGetNext(s),
                              !.adu[i].queuedTime = now,
                              !.adu[i].delayToSend =
                                 ToUint32(IF prev > next \/ prev = next
                                          THEN s.repeatDelay ELSE s.delay)],
                    i, next, fuel)
     ELSE [ok |-> FALSE, w |-> w]

\* PDU::invoke
invoke(w, i) == callCallback([w EXCEPT !.adu[i] = Decoded(@)], i, Fuel)

---------------------------------------------------------------------------
(* The request API of ModbusMaster *)

isWriteFunction(fn) ==
  fn \in {MB_FC_WRITE_SINGLE_COIL, MB_FC_WRITE_SINGLE_REGISTER, MB_FC_WRITE_MULTIPLE_COILS,
          MB_FC_WRITE_MULTIPLE_REGISTERS, MB_FC_MASK_WRITE_REGISTER}

\* a pool that hands out ADUs whether or not they are in use
AnyADU == 1..(IF engine = "RTU" THEN RtuQueueSize ELSE ADUPoolSize)

\* the ADU getFreePDU hands out
FreeADUs == {i \in ADUs : ~adu[i].used}

\* getFreePDU(cb, slaves): the RTU master advances the ADU's copy of the set
getFreePDUSlaves(a, slaves) ==
  [a EXCEPT !.used = TRUE, !.cb = TRUE,
            !.slaves = IF engine = "RTU" THEN SlavesGetNext(slaves) ELSE slaves]

\* getFreePDU(cb, slave)
getFreePDUSlave(a, slave) ==
  [a EXCEPT !.used = TRUE, !.cb = TRUE, !.slaves = NoSlaves, !.slave = slave]

\* a target is one slave id or a caller's slave set
One(slave) == [single |-> TRUE, slave |-> slave, slaves |-> NoSlaves]
Many(slaves) == [single |-> FALSE, slave |-> slaves.active, slaves |-> slaves]

\* a step that is not a request
NoRequest == [name |-> "step", fn |-> 0, target |-> One(0)]

Observe == op' = NoRequest

\* the builder call b = <<builder, arguments...>> of a request function on ADU a
Build(a, b) ==
  IF b[1] = "createReadState" THEN createReadState(a, b[2], b[3], b[4])
  ELSE IF b[1] = "createReadRegisters" THEN createReadRegisters(a, b[2], b[3], b[4], b[5])
  ELSE IF b[1] = "createReadExceptionStatus" THEN createReadExceptionStatus(a)
  ELSE IF b[1] = "createDiagnostics" THEN createDiagnostics(a, b[2], b[3])
  ELSE IF b[1] = "createReadWriteMultipleRegisters"
    THEN createReadWriteMultipleRegisters(a, b[2], b[3], b[4], b[5], b[6], b[7], b[8])
  ELSE IF b[1] = "createWriteHoldingRegister"
    THEN createWriteHoldingRegister(a, b[2], b[3], b[4], b[5])
  ELSE createWriteSingleCoil(a, b[2], b[3])

\* the common body of the request functions: rejected is the slave-id guard
\* of the single-slave variant, create the builder call
Request(name, fn, target, rejected, create) ==
  /\ ~hung
  /\ calls < MaxCalls
  /\ calls' = calls + 1
  /\ op' = [name |-> name, fn |-> fn, target |-> target]
  /\ UNCHANGED <<engine, rtu, cli, stream, line, wire, frames, sketch>>
  /\ tx' = <<>>
  /\ IF target.single /\ rejected
       THEN /\ cbs' = <<Synthetic(MB_EX_LIB_INVALID_SLAVE)>>
            /\ UNCHANGED <<adu, queue, tid, hung>>
     ELSE IF FreeADUs = {}
       THEN /\ cbs' = <<Synthetic(MB_EX_LIB_NO_MORE_FREE_ADU)>>
            /\ UNCHANGED <<adu, queue, tid, hung>>
     ELSE LET i == Min(FreeADUs)
              a1 == IF target.single THEN getFreePDUSlave(adu[i], target.slave)
                    ELSE getFreePDUSlaves(adu[i], target.slaves)
              b == Build(a1, create)
          IN IF b.err # MB_EX_SUCCESS
               THEN /\ cbs' = <<Seen(i, b.a)>>
                    /\ adu' = [adu EXCEPT ![i] = PduClear(b.a)]
                    /\ UNCHANGED <<queue, tid, hung>>
             ELSE \E r \in {sendPDU([World EXCEPT !.adu[i] = b.a], i, target.slave, Fuel)} :
                     /\ adu' = r.w.adu
                     /\ queue' = r.w.queue
                     /\ tid' = r.w.tid
                     /\ cbs' = r.w.cbs
                     /\ hung' = r.w.hung

---------------------------------------------------------------------------
(* ModbusRTUMaster::loop.  One call is one step; `late` is the number of
   bytes that land on the port while the call runs, between its read of the
   port and its clearBuffer(). *)

MB_ASYNC_STATE_IDLE == "IDLE"
MB_ASYNC_STATE_RECEIVE == "RECEIVE"
MB_ASYNC_STATE_HEADCHEKD == "HEADCHEKD"
MB_ASYNC_STATE_BUFFER_CLEAR == "BUFFER_CLEAR"

Result(r, w, s, l, t) == [rtu |-> r, w |-> w, stream |-> s, line |-> l, tx |-> t]

\* state = clearBuffer() ? BUFFER_CLEAR : IDLE, then reset()
Cleared(r, late) ==
  [r EXCEPT !.state = IF late > 0 THEN MB_ASYNC_STATE_BUFFER_CLEAR ELSE MB_ASYNC_STATE_IDLE,
            !.current = 0, !.errorReceive = FALSE]

\* a reset that leaves the current ADU in place
resetNothing(r) == r

\* ModbusRTUMaster::reset
reset(r) == [r EXCEPT !.current = 0, !.errorReceive = FALSE]

getTXADULen(a) ==
  IF engine = "RTU" THEN MB_ADU_RTU_HEADER_LEN + a.txLen + MB_ADU_RTU_CRC_LEN
  ELSE MB_ADU_MBAP_LEN + a.txLen

\* the bytes send() writes
Written(a) == Take(a.frame, getTXADULen(a))

getSlaveId(a) == At(a.frame, 0)

\* a frame written by ADU i, as recorded in tx
Sent(i, a) == [id |-> i, frame |-> Written(a)]

getExpectedResponseLen(a) == a.expLen + MB_ADU_RTU_HEADER_LEN + MB_ADU_RTU_CRC_LEN

\* a CRC check that accepts every frame
checkResponseCRCAlways(a) == TRUE

\* ADURTU::checkResponseCRC, the test it makes
checkResponseCRC(a) == crc16Check(a.rx)

\* case MB_ASYNC_STATE_HEADCHEKD
HeadChekd(r, w, s, late) ==
  LET c == r.current
      w1 == IF Len(s) > 0 THEN [w EXCEPT !.adu[c].rx = @ \o s] ELSE w
      r1 == IF Len(s) > 0 THEN [r EXCEPT !.lastByteTime = now] ELSE r
      a == w1.adu[c]
      len == Len(a.rx)
  IN IF getExpectedResponseLen(a) = len \/ (r1.errorReceive /\ len = 5)
       THEN IF ~checkResponseCRC(a)
              THEN LET w2 == callCallback([w1 EXCEPT !.adu[c].err = MB_EX_LIB_CRC], c, Fuel)
                       w3 == callCallback(w2, c, Fuel)
                   IN Result(Cleared(r1, late), w3, <<>>, Drop(line, late), <<>>)
            ELSE Result(reset([r1 EXCEPT !.state = MB_ASYNC_STATE_IDLE]),
                        invoke(w1, c), <<>>, line, <<>>)
     ELSE IF len # 0 /\ on_us(r1.lastByteTime, ByteTimeout)
       THEN Result(Cleared(r1, late),
                   callCallback([w1 EXCEPT !.adu[c].err = MB_EX_LIB_RESPONSE_TIMEOUT], c, Fuel),
                   <<>>, Drop(line, late), <<>>)
     ELSE Result(r1, w1, <<>>, line, <<>>)

\* case MB_ASYNC_STATE_RECEIVE, which falls through to HEADCHEKD
Receive(r, w, s, late) ==
  LET c == r.current
      w1 == [w EXCEPT !.adu[c].rx = @ \o s]
      r1 == [r EXCEPT !.lastByteTime = now]
      a == w1.adu[c]
  IN IF Len(s) > 0
       THEN IF Len(a.rx) >= 2
              THEN IF At(a.rx, 0) # At(a.frame, 0)
                     THEN Result(Cleared(r1, late),
                                 callCallback([w1 EXCEPT !.adu[c].err = MB_EX_LIB_INVALID_SLAVE],
                                              c, Fuel),
                                 <<>>, Drop(line, late), <<>>)
                   ELSE HeadChekd([r1 EXCEPT !.state = MB_ASYNC_STATE_HEADCHEKD,
                                             !.errorReceive =
                                                IF At(a.rx, 1) = a.head[1] + 128 THEN TRUE ELSE @],
                                  w1, <<>>, late)
            ELSE HeadChekd(r1, w1, <<>>, late)
     ELSE IF on_us(r.lastByteTime, ResponseTimeout)
       THEN Result(Cleared(r, late),
                   callCallback([w EXCEPT !.adu[c].err = MB_EX_LIB_RESPONSE_TIMEOUT], c, Fuel),
                   <<>>, Drop(line, late), <<>>)
     ELSE HeadChekd(r, w, <<>>, late)

\* case MB_ASYNC_STATE_IDLE
Idle(r, w, s) ==
  IF ~QueueIsEmpty(w.queue)
    THEN IF on_us(r.lastByteTime, FrameTimeout)
           THEN LET q == QueueReadReady(w.adu, w.queue)
                    c == q.item
                    r1 == [r EXCEPT !.current = c, !.lastByteTime = now]
                    w1 == [w EXCEPT !.queue = q.q]
                IN IF ~q.ok THEN Result(r, w, s, line, <<>>)
                   ELSE IF getSlaveId(w.adu[c]) = 0
                     THEN Result(reset(r1), callCallback(w1, c, Fuel), s, line,
                                 <<Sent(c, w.adu[c])>>)
                   ELSE Result([r1 EXCEPT !.state = MB_ASYNC_STATE_RECEIVE], w1, s, line,
                               <<Sent(c, w.adu[c])>>)
         ELSE Result(r, w, s, line, <<>>)
  ELSE Result([r EXCEPT !.lastByteTime = now - FrameTimeout], w, s, line, <<>>)

\* case MB_ASYNC_STATE_BUFFER_CLEAR
BufferClear(r, w, s) ==
  IF Len(s) > 0 THEN Result([r EXCEPT !.lastByteTime = now], w, <<>>, line, <<>>)
  ELSE IF on_us(r.lastByteTime, FrameTimeout)
    THEN Result([r EXCEPT !.state = MB_ASYNC_STATE_IDLE], w, s, line, <<>>)
  ELSE Result(r, w, s, line, <<>>)

RtuStep(late) ==
  IF rtu.state = MB_ASYNC_STATE_BUFFER_CLEAR THEN BufferClear(rtu, World, stream)
  ELSE IF rtu.state = MB_ASYNC_STATE_IDLE THEN Idle(rtu, World, stream)
  ELSE IF rtu.state = MB_ASYNC_STATE_RECEIVE THEN Receive(rtu, World, stream, late)
  ELSE HeadChekd(rtu, World, stream, late)

RtuLoop ==
  /\ engine = "RTU"
  /\ ~hung
  /\ \E late \in {0, Len(line)} :
     \E R \in {RtuStep(late)} :
          /\ frames + Len(R.tx) <= MaxFrames
          /\ frames' = frames + Len(R.tx)
          /\ rtu' = R.rtu
          /\ adu' = R.w.adu
          /\ queue' = R.w.queue
          /\ tid' = R.w.tid
          /\ cbs' = R.w.cbs
          /\ hung' = R.w.hung
          /\ stream' = R.stream
          /\ line' = R.line
          /\ tx' = R.tx
          /\ wire' = IF R.tx = <<>> THEN wire ELSE <<R.tx[1].frame>>
          /\ sketch' = Monitor(sketch, R)
  /\ op' = NoRequest
  /\ UNCHANGED <<engine, cli, calls>>

---------------------------------------------------------------------------
(* ClientItem::loop of the one configured client.  The connection is up. *)

\* ADUTCPSent: slots 1.._size, 0 for nullptr
SentIsEmpty(sent) == \A k \in DOMAIN sent : sent[k] = 0

SentHasFree(sent) == \E k \in DOMAIN sent : sent[k] = 0

SentAdd(sent, i) ==
  IF i = 0 \/ ~SentHasFree(sent) THEN sent
  ELSE [sent EXCEPT ![Min({k \in DOMAIN sent : sent[k] = 0})] = i]

getTransactionId(a) == At(a.frame, 0) * 256 + At(a.frame, 1)

\* a read that takes the oldest slot in use, whatever its transaction id
SentMatchesAny(pool, sent, tranId) == {k \in DOMAIN sent : sent[k] # 0}

\* the slots ADUTCPSent::read and readNextTimeout would take
SentMatches(pool, sent, tranId) ==
  {k \in DOMAIN sent : sent[k] # 0 /\ getTransactionId(pool[sent[k]]) = tranId}

SentTimedOut(pool, sent, timeout) ==
  {k \in DOMAIN sent : sent[k] # 0 /\ on_ms(pool[sent[k]].sentTime, timeout)}

TcpResult(c, w, s, t) == [cli |-> c, w |-> w, stream |-> s, tx |-> t]

\* ClientItem::reset
TcpReset(c) == [c EXCEPT !.current = 0, !.incomingByte = 0]

\* the timeout checks that end the loop
RECURSIVE TcpTimeouts(_)
TcpTimeouts(R) ==
  LET c == R.cli
  IN IF c.allAtOnce /\ ~SentIsEmpty(c.sent)
       THEN LET late == SentTimedOut(R.w.adu, c.sent, TcpResponseTimeout)
                k == Min(late)
                i == c.sent[k]
            IN IF late = {} \/ R.w.hung THEN R
               ELSE TcpTimeouts(The({
                      [R EXCEPT !.cli.sent[k] = 0, !.w = w1] :
                      w1 \in {callCallback(
                                [R.w EXCEPT !.adu[i].err = MB_EX_LIB_RESPONSE_TIMEOUT],
                                i, Fuel)}}))
     ELSE IF c.current # 0 /\ on_ms(R.w.adu[c.current].sentTime, TcpResponseTimeout)
       THEN [R EXCEPT !.cli = TcpReset(c),
                      !.w = callCallback(
                              [R.w EXCEPT !.adu[c.current].err = MB_EX_LIB_RESPONSE_TIMEOUT],
                              c.current, Fuel)]
     ELSE R

\* the body of the response, once _incomingByte bytes are available
TcpBody(R) ==
  LET c == R.cli
      n == c.incomingByte
  IN IF n # 0 /\ Len(R.stream) >= n
       THEN TcpTimeouts([R EXCEPT
              !.w = invoke([R.w EXCEPT !.adu[c.current].rx =
                                         Take(@, MB_ADU_MBAP_LEN) \o Take(R.stream, n)],
                           c.current),
              !.stream = Drop(R.stream, n),
              !.cli = TcpReset(c)])
     ELSE TcpTimeouts(R)

\* ADUTCP::checkResponseMBAP: the error it reports, 0 for none
checkResponseMBAP(a) ==
  IF At(a.rx, 0) # At(a.frame, 0) \/ At(a.rx, 1) # At(a.frame, 1)
    THEN MB_EX_LIB_INVALID_MBAP_TRANSACTION_ID
  ELSE IF At(a.rx, 2) # At(a.frame, 2) \/ At(a.rx, 3) # At(a.frame, 3)
    THEN MB_EX_LIB_INVALID_MBAP_PROTOCOL_ID
  ELSE IF At(a.rx, 6) # At(a.frame, 6) THEN MB_EX_LIB_INVALID_MBAP_UNIT_ID
  ELSE MB_EX_SUCCESS

\* the MBAP header, once seven bytes are available
TcpHeader(R) ==
  LET c == R.cli
      mbap == Take(R.stream, MB_ADU_MBAP_LEN)
      rest == Drop(R.stream, MB_ADU_MBAP_LEN)
      tranId == mbap[1] * 256 + mbap[2]
      found == SentMatches(R.w.adu, c.sent, tranId)
      cur == IF c.allAtOnce /\ found # {} THEN c.sent[Min(found)] ELSE c.current
      c1 == [c EXCEPT !.current = cur,
                      !.sent = IF c.allAtOnce /\ found # {}
                                 THEN [@ EXCEPT ![Min(found)] = 0] ELSE @,
                      !.incomingByte = (mbap[5] * 256 + mbap[6]) - 1]
      w1 == [R.w EXCEPT !.adu[cur].rx = mbap \o Drop(@, MB_ADU_MBAP_LEN)]
      e == checkResponseMBAP(w1.adu[cur])
  IN IF c.current = 0 /\ SentIsEmpty(c.sent) THEN R
     ELSE IF c.incomingByte # 0 \/ Len(R.stream) < MB_ADU_MBAP_LEN THEN TcpBody(R)
     ELSE IF c.allAtOnce /\ found = {} THEN [R EXCEPT !.stream = <<>>, !.cli = TcpReset(c)]
     ELSE IF cur = 0 THEN [R EXCEPT !.stream = <<>>, !.cli = TcpReset(c)]
     ELSE IF e # MB_EX_SUCCESS
       THEN TcpBody([R EXCEPT !.stream = <<>>, !.cli = TcpReset(c1),
                              !.w = callCallback([w1 EXCEPT !.adu[cur].err = e], cur, Fuel)])
     ELSE TcpBody([R EXCEPT !.stream = rest, !.cli = c1, !.w = w1])

\* ClientItem::send
TcpSend(w, i) == [w EXCEPT !.adu[i].sentTime = now]

\* allAtOnce: every ready ADU is written, into the sent window
RECURSIVE TcpSendAll(_)
TcpSendAll(R) ==
  IF ~QueueHasReady(R.w.adu, R.w.queue) THEN TcpHeader(R)
  ELSE The({
    IF ~q.ok THEN TcpHeader(R)
    ELSE IF SentHasFree(R.cli.sent)
      THEN TcpSendAll([R EXCEPT !.w = TcpSend([R.w EXCEPT !.queue = q.q], q.item),
                                !.cli.sent = SentAdd(@, q.item),
                                !.tx = Append(@, Sent(q.item, R.w.adu[q.item]))])
    ELSE [R EXCEPT !.w = callCallback(
                           [R.w EXCEPT !.queue = q.q,
                                       !.adu[q.item].err = MB_EX_LIB_TCP_SENT_BUFFER_FULL],
                           q.item, Fuel)] :
    q \in {QueueReadReady(R.w.adu, R.w.queue)}})

\* a send that does not wait for the current ADU to complete
TcpSendOneUnguarded(R) ==
  IF QueueHasReady(R.w.adu, R.w.queue)
    THEN The({
      IF ~q.ok THEN TcpHeader(R)
      ELSE TcpHeader([R EXCEPT !.w = TcpSend([R.w EXCEPT !.queue = q.q], q.item),
                               !.cli.current = q.item,
                               !.tx = Append(@, Sent(q.item, R.w.adu[q.item]))]) :
      q \in {QueueReadReady(R.w.adu, R.w.queue)}})
  ELSE TcpHeader(R)

\* one ADU at a time
TcpSendOne(R) ==
  IF R.cli.current = 0 /\ QueueHasReady(R.w.adu, R.w.queue)
    THEN The({
      IF ~q.ok THEN TcpHeader(R)
      ELSE TcpHeader([R EXCEPT !.w = TcpSend([R.w EXCEPT !.queue = q.q], q.item),
                               !.cli.current = q.item,
                               !.tx = Append(@, Sent(q.item, R.w.adu[q.item]))]) :
      q \in {QueueReadReady(R.w.adu, R.w.queue)}})
  ELSE TcpHeader(R)

TcpStep ==
  IF cli.allAtOnce THEN TcpSendAll(TcpResult(cli, World, stream, <<>>))
  ELSE TcpSendOne(TcpResult(cli, World, stream, <<>>))

TcpLoop ==
  /\ engine = "TCP"
  /\ ~hung
  /\ \E R \in {TcpStep} :
       /\ frames + Len(R.tx) <= MaxFrames
       /\ frames' = frames + Len(R.tx)
       /\ cli' = R.cli
       /\ adu' = R.w.adu
       /\ queue' = R.w.queue
       /\ tid' = R.w.tid
       /\ cbs' = R.w.cbs
       /\ hung' = R.w.hung
       /\ stream' = R.stream
       /\ tx' = R.tx
       /\ wire' = wire \o [k \in 1..Len(R.tx) |-> R.tx[k].frame]
  /\ op' = NoRequest
  /\ UNCHANGED <<engine, rtu, line, calls, sketch>>

---------------------------------------------------------------------------
(* The callers: request functions with their arguments drawn from small sets *)

\* a caller's Slaves object: fresh, its cursor at SLAVE_BOF, or advanced to
\* its first member by the caller's own getNext()
Fresh(mask, repeatDelay) ==
  [mask |-> mask, active |-> SLAVE_BOF, delay |-> 0, repeatDelay |-> repeatDelay]

SlaveSets ==
  {Fresh(1..MaxSlave, -1), Fresh(1..MaxSlave, 1), Fresh({0}, 1),
   SlavesGetNext(Fresh(1..MaxSlave, -1))}

Singles == {One(0), One(ClientId)}

Targets == Singles \cup {One(MaxSlave)} \cup {Many(S) : S \in SlaveSets}

\* a scheduled broadcast: the set {0}, repeating; and a set that holds id 0
\* and another id
Broadcasts == Singles \cup {Many(Fresh({0}, 1)), Many(Fresh({0, ClientId}, -1))}

\* a set of three slaves, the caller having taken the first id with getNext()
Triples == {Many(SlavesGetNext(Fresh(1..(MaxSlave + 1), -1)))}

readCoils(T) ==
  \E t \in T :
    Request("readCoils", MB_FC_READ_COILS, t, t.slave = 0,
            <<"createReadState", MB_FC_READ_COILS, 0, 8>>)

readDiscreteInputs(T) ==
  \E t \in T :
    Request("readDiscreteInputs", MB_FC_READ_DISCRETE_INPUTS, t, t.slave = 0,
            <<"createReadState", MB_FC_READ_DISCRETE_INPUTS, 0, 8>>)

\* the single-slave variant without its slave-id guard
readHoldingRegistersUnguarded(T) ==
  \E t \in T :
    Request("readHoldingRegisters", MB_FC_READ_HOLDING_REGISTERS, t, FALSE,
            <<"createReadRegisters", MB_FC_READ_HOLDING_REGISTERS, 0, 1, 2>>)

readHoldingRegisters(T) ==
  \E t \in T :
    Request("readHoldingRegisters", MB_FC_READ_HOLDING_REGISTERS, t, t.slave = 0,
            <<"createReadRegisters", MB_FC_READ_HOLDING_REGISTERS, 0, 1, 2>>)

readInputRegisters(T) ==
  \E t \in T :
    Request("readInputRegisters", MB_FC_READ_INPUT_REGISTERS, t, t.slave = 0,
            <<"createReadRegisters", MB_FC_READ_INPUT_REGISTERS, 0, 1, 2>>)

readExceptionStatus(T) ==
  \E t \in T :
    Request("readExceptionStatus", MB_FC_READ_EXCEPTION_STATUS, t, t.slave = 0,
            <<"createReadExceptionStatus">>)

diagnostic(T) ==
  \E t \in T :
    Request("diagnostic", MB_FC_DIAGNOSTICS, t, t.slave = 0,
            <<"createDiagnostics", 0, 4660>>)

readWriteMultipleRegisters(T) ==
  \E t \in T :
    Request("readWriteMultipleRegisters", MB_FC_READ_AND_WRITE_REGISTERS, t, t.slave = 0,
            <<"createReadWriteMultipleRegisters", 0, 1, 2, 0, <<52, 18>>, 1, 2>>)

\* readWriteMultipleRegisters<READ_T, WRITE_T>(slave, readAddr, readCount,
\* writeAddr, writeData, writeCount, cb) with sizeof(READ_T) = readSize, one
\* uint16_t written
readWriteMultipleRegistersTyped(T, readCount, readSize) ==
  \E t \in T :
    Request("readWriteMultipleRegisters", MB_FC_READ_AND_WRITE_REGISTERS, t, t.slave = 0,
            <<"createReadWriteMultipleRegisters", 0, readCount, readSize, 0, <<52, 18>>, 1, 2>>)

\* the bytes of n elements of a caller's array, as the host holds them
HostArray(n, size) == [k \in 1..(n * size) |-> (16 + k) % 256]

\* writeHoldingRegisters<T>(slave, addr, src, srcCount, cb) with sizeof(T) =
\* size: srcCount is uint16_t and is passed on as the builder's uint8_t count
writeHoldingRegisters(T, srcCount, size) ==
  \E t \in T :
    Request("writeHoldingRegisters", MB_FC_WRITE_MULTIPLE_REGISTERS, t,
            t.slave = 0 /\ ~isWriteFunction(MB_FC_WRITE_MULTIPLE_REGISTERS),
            <<"createWriteHoldingRegister", 0, HostArray(srcCount % 256, size),
              srcCount % 256, size>>)

\* readHoldingRegisters<T>(slave, addr, count, cb) with sizeof(T) = size
readHoldingRegistersTyped(T, count, size) ==
  \E t \in T :
    Request("readHoldingRegisters", MB_FC_READ_HOLDING_REGISTERS, t, t.slave = 0,
            <<"createReadRegisters", MB_FC_READ_HOLDING_REGISTERS, 0, count, size>>)

\* readInputRegisters<T>(slave, addr, count, cb) with sizeof(T) = size
readInputRegistersTyped(T, count, size) ==
  \E t \in T :
    Request("readInputRegisters", MB_FC_READ_INPUT_REGISTERS, t, t.slave = 0,
            <<"createReadRegisters", MB_FC_READ_INPUT_REGISTERS, 0, count, size>>)

writeSingleCoil(T) ==
  \E t \in T :
    Request("writeSingleCoil", MB_FC_WRITE_SINGLE_COIL, t,
            t.slave = 0 /\ ~isWriteFunction(MB_FC_WRITE_SINGLE_COIL),
            <<"createWriteSingleCoil", 5, TRUE>>)

---------------------------------------------------------------------------
(* The slaves, the line and the clock *)

\* the data bytes a slave returns
DataByte(k) == IF k % 2 = 1 THEN 18 ELSE 52

\* the response PDU a slave builds for request PDU p
ResponsePDU(p) ==
  LET fn == p[1]
      Word(k) == At(p, k) * 256 + At(p, k + 1)
      Bytes(n) == <<fn, n % 256>> \o [k \in 1..n |-> DataByte(k)]
  IN IF fn \in {MB_FC_READ_COILS, MB_FC_READ_DISCRETE_INPUTS} THEN Bytes((Word(3) + 7) \div 8)
     ELSE IF fn \in {MB_FC_READ_HOLDING_REGISTERS, MB_FC_READ_INPUT_REGISTERS,
                     MB_FC_READ_AND_WRITE_REGISTERS} THEN Bytes(2 * Word(3))
     ELSE IF fn = MB_FC_READ_EXCEPTION_STATUS THEN <<fn, DataByte(1)>>
     ELSE IF fn = MB_FC_MASK_WRITE_REGISTER THEN Take(p, 7)
     ELSE Take(p, 5)

ExceptionPDU(p) == <<p[1] + 128, MB_EX_ILLEGAL_DATA_ADDRESS>>

\* a request frame a slave on the bus can answer
Answerable(f) ==
  IF engine = "RTU"
    THEN Len(f) >= 4 /\ f[1] \in 1..MB_MAX_SLAVE_ID /\ crc16Check(f)
  ELSE Len(f) >= 8

ReplyKinds ==
  IF engine = "RTU" THEN {"good", "exception", "badcrc", "wrongslave"}
  ELSE {"good", "exception", "badtid", "badproto", "badunit"}

Other(slave) == (slave % MB_MAX_SLAVE_ID) + 1

Spoil(f) == [f EXCEPT ![Len(f)] = (@ + 1) % 256]

Reply(f, kind) ==
  IF engine = "RTU"
    THEN LET p == SubSeq(f, 2, Len(f) - 2)
         IN IF kind = "good" THEN crc16Set(<<f[1]>> \o ResponsePDU(p))
            ELSE IF kind = "exception" THEN crc16Set(<<f[1]>> \o ExceptionPDU(p))
            ELSE IF kind = "badcrc" THEN Spoil(crc16Set(<<f[1]>> \o ResponsePDU(p)))
            ELSE crc16Set(<<Other(f[1])>> \o ResponsePDU(p))
  ELSE LET p == Drop(f, 7)
           q == IF kind = "exception" THEN ExceptionPDU(p) ELSE ResponsePDU(p)
       IN <<IF kind = "badtid" THEN (f[1] + 1) % 256 ELSE f[1], f[2],
            0, IF kind = "badproto" THEN 1 ELSE 0,
            0, Len(q) + 1,
            IF kind = "badunit" THEN Other(f[7]) ELSE f[7]>> \o q


SlaveReply ==
  /\ ~hung
  /\ wire # <<>>
  /\ line = <<>>
  /\ Answerable(Head(wire))
  /\ \E kind \in ReplyKinds : line' = line \o Reply(Head(wire), kind)
  /\ wire' = Tail(wire)
  /\ cbs' = <<>>
  /\ tx' = <<>>
  /\ Observe
  /\ UNCHANGED <<engine, adu, queue, rtu, cli, tid, stream, hung, calls, frames, sketch>>

\* the addressed slave does not exist or does not answer
NoReply ==
  /\ ~hung
  /\ wire # <<>>
  /\ wire' = Tail(wire)
  /\ cbs' = <<>>
  /\ tx' = <<>>
  /\ Observe
  /\ UNCHANGED <<engine, adu, queue, rtu, cli, tid, stream, line, hung, calls, frames, sketch>>

\* bytes on the line reach the port
Arrive ==
  /\ ~hung
  /\ line # <<>>
  /\ \E k \in {1, Len(line)} :
       /\ k <= Len(line)
       /\ Len(stream) + k <= MaxStream
       /\ stream' = stream \o Take(line, k)
       /\ line' = Drop(line, k)
  /\ sketch' = Stamp(sketch)
  /\ cbs' = <<>>
  /\ tx' = <<>>
  /\ Observe
  /\ UNCHANGED <<engine, adu, queue, rtu, cli, tid, wire, hung, calls, frames>>

\* a clock tick: every timestamp is one tick older
Older(t) == IF t > 0 THEN t - 1 ELSE 0

Tick ==
  /\ ~hung
  /\ adu' = [i \in DOMAIN adu |-> [adu[i] EXCEPT !.queuedTime = Older(@), !.sentTime = Older(@)]]
  /\ rtu' = [rtu EXCEPT !.lastByteTime = Older(@)]
  /\ sketch' = Aged(sketch)
  /\ cbs' = <<>>
  /\ tx' = <<>>
  /\ Observe
  /\ UNCHANGED <<engine, queue, cli, tid, stream, line, wire, hung, calls, frames>>

---------------------------------------------------------------------------

\* the masters after begin()
Begun ==
  /\ engine \in {"RTU", "TCP"}
  /\ adu = [i \in ADUs |-> FreshADU]
  /\ queue = EmptyQueue(IF engine = "RTU" THEN RtuQueueSize ELSE ClientQueueSize)
  /\ rtu = [state |-> MB_ASYNC_STATE_IDLE, current |-> 0, errorReceive |-> FALSE,
            lastByteTime |-> now]
  /\ cli \in {[current |-> 0, incomingByte |-> 0, sent |-> [k \in 1..ClientQueueSize |-> 0],
              allAtOnce |-> b] : b \in IF engine = "TCP" THEN BOOLEAN ELSE {FALSE}}
  /\ tid = 0
  /\ stream = <<>>
  /\ line = <<>>
  /\ wire = <<>>
  /\ cbs = <<>>
  /\ tx = <<>>
  /\ hung = FALSE
  /\ calls = 0
  /\ frames = 0
  /\ op = NoRequest

\* a Slaves object as its default constructor leaves it, nothing set
NoSketch == [given |-> {}, slaves |-> NoSlaves, yielded |-> <<>>]

Init == Begun /\ sketch = NoSketch

\* an RTU master serving single-slave and slave-set requests
InitRTU == Init /\ engine = "RTU"

NextRTU ==
  \/ readHoldingRegisters(Targets \cup Triples)
  \/ writeSingleCoil(Broadcasts)
  \/ RtuLoop
  \/ SlaveReply
  \/ Arrive
  \/ Tick

Spec == InitRTU /\ [][NextRTU]_vars

\* a TCP client serving the same requests
InitTCP == Init /\ engine = "TCP"

NextTCP ==
  \/ readHoldingRegisters(Targets)
  \/ writeSingleCoil(Singles)
  \/ TcpLoop
  \/ SlaveReply
  \/ NoReply
  \/ Arrive
  \/ Tick

SpecTCP == InitTCP /\ [][NextTCP]_vars

\* an RTU master serving every single-slave request function
NextApi ==
  \/ readCoils(Singles)
  \/ readDiscreteInputs(Singles)
  \/ readHoldingRegisters(Singles)
  \/ readInputRegisters(Singles)
  \/ readExceptionStatus(Singles)
  \/ diagnostic(Singles)
  \/ readWriteMultipleRegisters(Singles)
  \/ writeSingleCoil(Singles)
  \/ RtuLoop
  \/ SlaveReply
  \/ Arrive
  \/ Tick

SpecApi == InitRTU /\ [][NextApi]_vars

\* a TCP client serving register requests of every size class, its server
\* silent: element counts around the limits of the request and of the count's
\* integer type, for elements of 2, 4 and 8 bytes
SrcCounts == {1, 2, 61, 62, 123, 124, 255, 256, 257, 379, 380, 65535}

Counts == {0, 1, 31, 32, 62, 63, 64, 125, 126, 128, 129, 255}

Sizes == {2, 4, 8}

Station == {One(ClientId)}

NextCounts ==
  \/ \E n \in SrcCounts : \E size \in Sizes : writeHoldingRegisters(Station, n, size)
  \/ \E c \in Counts : \E size \in Sizes : readHoldingRegistersTyped(Station, c, size)
  \/ \E c \in Counts : \E size \in Sizes : readInputRegistersTyped(Station, c, size)
  \/ TcpLoop
  \/ NoReply
  \/ Tick

SpecCounts == InitTCP /\ [][NextCounts]_vars

\* the same caller issuing read/write-multiple-registers requests
ReadCounts == {0, 1, 31, 32, 62, 63, 64, 125, 126, 255}
ReadSizes == {1, 2, 3, 4, 8}

NextReadWrite ==
  \/ \E c \in ReadCounts : \E size \in ReadSizes :
       readWriteMultipleRegistersTyped(Station, c, size)
  \/ TcpLoop
  \/ NoReply
  \/ Tick

SpecReadWrite == InitTCP /\ [][NextReadWrite]_vars

\* the same caller reading a few elements of 1, 2 and 3 bytes from a server
\* that answers
TypedCounts == {1, 2}
TypedSizes == {1, 2, 3}

NextTyped ==
  \/ \E c \in TypedCounts : \E size \in TypedSizes : readHoldingRegistersTyped(Station, c, size)
  \/ TcpLoop
  \/ SlaveReply
  \/ Arrive
  \/ Tick

SpecTyped == InitTCP /\ [][NextTyped]_vars

\* a TCP client whose server answers with any MBAP length field, on a socket
\* that buffers a whole response
SocketBuffer == 300

\* the MBAP length fields the server sends: the header alone, the conforming
\* response to a read of one register, PDU size + 1 and PDU size + 2
LengthFields == {1, 5, MB_PDU_MAX_SIZE + 1, MB_PDU_MAX_SIZE + 2}

\* the response to request frame f with MBAP length field n: the unit id and
\* n - 1 bytes, the response PDU first
Sized(f, n) ==
  LET q == ResponsePDU(Drop(f, MB_ADU_MBAP_LEN))
  IN <<f[1], f[2], 0, 0, highByte(n), lowByte(n), f[7]>>
       \o [k \in 1..(n - 1) |-> IF k <= Len(q) THEN q[k] ELSE DataByte(k)]

ServerSends ==
  /\ ~hung
  /\ wire # <<>>
  /\ line = <<>>
  /\ Answerable(Head(wire))
  /\ \E n \in LengthFields : line' = Sized(Head(wire), n)
  /\ wire' = Tail(wire)
  /\ cbs' = <<>>
  /\ tx' = <<>>
  /\ Observe
  /\ UNCHANGED <<engine, adu, queue, rtu, cli, tid, stream, hung, calls, frames, sketch>>

\* the exception codes the server answers with: none, the first and the last
\* of the Modbus codes, and codes beyond them
ExceptionCodes == {0, 1, 10, 11, 255}

\* the server answers with an exception response
ServerRefuses ==
  /\ ~hung
  /\ wire # <<>>
  /\ line = <<>>
  /\ Answerable(Head(wire))
  /\ \E code \in ExceptionCodes :
       line' = LET f == Head(wire)
               IN <<f[1], f[2], 0, 0, 0, 3, f[7], f[8] + 128, code>>
  /\ wire' = Tail(wire)
  /\ cbs' = <<>>
  /\ tx' = <<>>
  /\ Observe
  /\ UNCHANGED <<engine, adu, queue, rtu, cli, tid, stream, hung, calls, frames, sketch>>

\* the response reaches the socket buffer whole
Deliver ==
  /\ ~hung
  /\ line # <<>>
  /\ Len(stream) + Len(line) <= SocketBuffer
  /\ stream' = stream \o line
  /\ line' = <<>>
  /\ sketch' = Stamp(sketch)
  /\ cbs' = <<>>
  /\ tx' = <<>>
  /\ Observe
  /\ UNCHANGED <<engine, adu, queue, rtu, cli, tid, wire, hung, calls, frames>>

NextSocket ==
  \/ readHoldingRegisters(Station)
  \/ TcpLoop
  \/ ServerSends
  \/ ServerRefuses
  \/ Deliver
  \/ Tick

SpecSocket == InitTCP /\ [][NextSocket]_vars

\* ModbusTCPClient::_responseTimeout as the constructor leaves it
\* (MB_RESPONSE_TIMEOUT), in the unit of TcpResponseTimeout
ClientResponseTimeout == 3

\* the values a sketch passes to setResponseTimeout
Timeouts == {1, 2}

\* a TCP client whose sketch also sets the response timeout
InitTimeout ==
  /\ Begun
  /\ engine = "TCP"
  /\ sketch = [responseTimeout |-> ClientResponseTimeout]

\* ModbusTCPClient::setResponseTimeout: the member of the ModbusTCPClient is
\* assigned; ClientItem::_responseTimeout of the clients is not
setResponseTimeout(t) ==
  /\ ~hung
  /\ sketch.responseTimeout # t
  /\ sketch' = [sketch EXCEPT !.responseTimeout = t]
  /\ cbs' = <<>>
  /\ tx' = <<>>
  /\ Observe
  /\ UNCHANGED <<engine, adu, queue, rtu, cli, tid, stream, line, wire, hung, calls, frames>>

NextTimeout ==
  \/ \E t \in Timeouts : setResponseTimeout(t)
  \/ readHoldingRegisters(Singles)
  \/ TcpLoop
  \/ SlaveReply
  \/ NoReply
  \/ Arrive
  \/ Tick

SpecTimeout == InitTimeout /\ [][NextTimeout]_vars

\* an RTU master on a monitored line: single-slave requests, broadcasts,
\* responses and idle time
InitLine ==
  /\ Begun
  /\ engine = "RTU"
  /\ sketch = [wireTime |-> 0, stale |-> 0]

NextLine ==
  \/ readHoldingRegisters(Singles)
  \/ writeSingleCoil(Broadcasts)
  \/ RtuLoop
  \/ SlaveReply
  \/ NoReply
  \/ Arrive
  \/ Tick

SpecLine == InitLine /\ [][NextLine]_vars

\* a pending queue on its own: a caller adds ADUs with a delay and takes them
\* out with read and readReady, while time passes
QueueCap == 3      \* ADUQueue::init queueSize
QueueItems == 3    \* the ADUs the caller holds
Delays == {0, 2}

Called(call, ok, item) == [call |-> call, ok |-> ok, item |-> item]

InitQueue ==
  /\ engine = "TCP"
  /\ adu = [i \in 1..QueueItems |-> FreshADU]
  /\ queue = EmptyQueue(QueueCap)
  /\ rtu = [state |-> MB_ASYNC_STATE_IDLE, current |-> 0, errorReceive |-> FALSE,
            lastByteTime |-> now]
  /\ cli = [current |-> 0, incomingByte |-> 0, sent |-> [k \in 1..ClientQueueSize |-> 0],
            allAtOnce |-> FALSE]
  /\ tid = 0
  /\ stream = <<>>
  /\ line = <<>>
  /\ wire = <<>>
  /\ cbs = <<>>
  /\ tx = <<>>
  /\ hung = FALSE
  /\ calls = 0
  /\ frames = 0
  /\ op = NoRequest
  /\ sketch = Called("init", FALSE, 0)

\* the caller stamps the ADU as repeatIfNeeded does and calls ADUQueue::add;
\* item 0 is nullptr
add(i, d) ==
  /\ adu' = IF i = 0 THEN adu
            ELSE [adu EXCEPT ![i].used = TRUE, ![i].queuedTime = now, ![i].delayToSend = d]
  /\ queue' = QueueAdd(queue, i).q
  /\ sketch' = Called("add", QueueAdd(queue, i).ok, i)
  /\ UNCHANGED <<engine, rtu, cli, tid, stream, line, wire, cbs, tx, hung, calls, frames, op>>

\* ADUQueue::read
read ==
  /\ queue' = QueueRead(queue).q
  /\ sketch' = Called("read", QueueRead(queue).ok, QueueRead(queue).item)
  /\ UNCHANGED <<engine, adu, rtu, cli, tid, stream, line, wire, cbs, tx, hung, calls, frames,
                 op>>

\* ADUQueue::readReady
readReady ==
  /\ queue' = QueueReadReady(adu, queue).q
  /\ sketch' = Called("readReady", QueueReadReady(adu, queue).ok,
                      QueueReadReady(adu, queue).item)
  /\ UNCHANGED <<engine, adu, rtu, cli, tid, stream, line, wire, cbs, tx, hung, calls, frames,
                 op>>

NextQueue ==
  \/ \E i \in 0..QueueItems : \E d \in Delays : add(i, d)
  \/ read
  \/ readReady
  \/ Tick

SpecQueue == InitQueue /\ [][NextQueue]_vars

\* a sketch that packs an array of numbers into registers and unpacks the
\* registers again, on a host of either byte order
Values == {0, 1, 255, 4660, 287454020}

ElemSizes == {1, 2, 3, 4, 8}

MaxElems == 2

\* v >> (8 * n)
RECURSIVE ShiftBytes(_, _)
ShiftBytes(v, n) == IF n = 0 THEN v ELSE ShiftBytes(v \div 256, n - 1)

\* the bytes of the number v in an element of size bytes, in memory order
HostBytes(v, size, bigEndian) ==
  [k \in 1..size |->
     ShiftBytes(v, IF bigEndian THEN size - k ELSE k - 1) % 256]

RECURSIVE HostMemory(_, _, _)
HostMemory(x, size, bigEndian) ==
  IF x = <<>> THEN <<>>
  ELSE HostBytes(Head(x), size, bigEndian) \o HostMemory(Tail(x), size, bigEndian)

Arrays == UNION {[1..n -> Values] : n \in 0..MaxElems}

InitPack ==
  /\ Begun
  /\ engine = "RTU"
  /\ sketch \in {[x |-> x, size |-> size, isBigEndian |-> b, stage |-> "host",
                  buffer |-> HostMemory(x, size, b)] :
                   x \in Arrays, size \in ElemSizes, b \in BOOLEAN}

Pack ==
  /\ sketch.stage = "host"
  /\ sketch' = [sketch EXCEPT
                  !.stage = "packed",
                  !.buffer = convertToBigEndianRegistersOn(
                               @, Len(sketch.x), sketch.size, PDUSize,
                               sketch.isBigEndian).dest]
  /\ UNCHANGED <<engine, adu, queue, rtu, cli, tid, stream, line, wire, cbs, tx,
                 hung, calls, frames, op>>

Unpack ==
  /\ sketch.stage = "packed"
  /\ sketch' = [sketch EXCEPT
                  !.stage = "unpacked",
                  !.buffer = convertFromBigEndianRegistersInPlace(
                               @, Len(sketch.x), sketch.size, sketch.isBigEndian)]
  /\ UNCHANGED <<engine, adu, queue, rtu, cli, tid, stream, line, wire, cbs, tx,
                 hung, calls, frames, op>>

NextPack ==
  \/ Pack
  \/ Unpack

SpecPack == InitPack /\ [][NextPack]_vars

\* a TCP client whose queue and sent window hold PipeWindow requests, in
\* either mode, serving single-slave requests; its server answers the
\* requests it holds in any order, with a response, an exception, or a bare
\* MBAP header whose length field counts the unit id only
PipeWindow == 2

InitPipe ==
  /\ engine = "TCP"
  /\ adu = [i \in ADUs |-> FreshADU]
  /\ queue = EmptyQueue(PipeWindow)
  /\ rtu = [state |-> MB_ASYNC_STATE_IDLE, current |-> 0, errorReceive |-> FALSE,
            lastByteTime |-> now]
  /\ cli \in {[current |-> 0, incomingByte |-> 0, sent |-> [k \in 1..PipeWindow |-> 0],
              allAtOnce |-> b] : b \in BOOLEAN}
  /\ tid = 0
  /\ stream = <<>>
  /\ line = <<>>
  /\ wire = <<>>
  /\ cbs = <<>>
  /\ tx = <<>>
  /\ hung = FALSE
  /\ calls = 0
  /\ frames = 0
  /\ op = NoRequest
  /\ sketch = NoSketch

BareHeader(f) == <<f[1], f[2], 0, 0, 0, 1, f[7]>>

ServerReply ==
  /\ ~hung
  /\ line = <<>>
  /\ \E k \in 1..Len(wire) :
       /\ Answerable(wire[k])
       /\ \/ \E kind \in {"good", "exception"} : line' = Reply(wire[k], kind)
          \/ line' = BareHeader(wire[k])
       /\ wire' = SubSeq(wire, 1, k - 1) \o SubSeq(wire, k + 1, Len(wire))
  /\ cbs' = <<>>
  /\ tx' = <<>>
  /\ Observe
  /\ UNCHANGED <<engine, adu, queue, rtu, cli, tid, stream, hung, calls, frames, sketch>>

NextPipe ==
  \/ readHoldingRegisters(Singles)
  \/ TcpLoop
  \/ ServerReply
  \/ NoReply
  \/ Arrive
  \/ Tick

SpecPipe == InitPipe /\ [][NextPipe]_vars

\* a loop() call would change the state: ENABLED <<TcpLoop>>_vars, written out
LoopActs ==
  /\ engine = "TCP"
  /\ ~hung
  /\ \E R \in {TcpStep} :
       /\ frames + Len(R.tx) <= MaxFrames
       /\ <<R.cli, R.w.adu, R.w.queue, R.w.tid, R.w.cbs, R.w.hung, R.stream, R.tx, NoRequest>>
            # <<cli, adu, queue, tid, cbs, hung, stream, tx, op>>

\* the sketch calls loop() again and again, and time passes: WF_vars(TcpLoop),
\* with its enabling condition written out, and WF_vars(Tick)
FairPipe ==
  /\ SpecPipe
  /\ []<>(~LoopActs) \/ []<><<TcpLoop>>_vars
  /\ WF_vars(Tick)

\* the same client polling its one slave: requests with the set {ClientId},
\* repeated at once or after a delay
Polls == {Many(Fresh({ClientId}, 0)), Many(Fresh({ClientId}, 1))}

NextOrder ==
  \/ readHoldingRegisters(Polls)
  \/ TcpLoop
  \/ SlaveReply
  \/ NoReply
  \/ Arrive
  \/ Tick

SpecOrder == InitPipe /\ [][NextOrder]_vars

\* a sketch that fills a Slaves object with set() and then iterates it
SlaveIds == 0..MaxSlave \cup {7, 8, MB_MAX_SLAVE_ID, MB_MAX_SLAVE_ID + 1}

MaxYield == 8          \* getNext() calls per behaviour

InitSlaves ==
  /\ Begun
  /\ engine = "RTU"
  /\ sketch \in {[NoSketch EXCEPT !.slaves.repeatDelay = d] : d \in {-1, 0, 1000}}

set ==
  /\ sketch.yielded = <<>>
  /\ \E slaveId \in SlaveIds :
       sketch' = [sketch EXCEPT !.given = @ \cup {slaveId},
                                !.slaves = SlavesSet(@, slaveId)]
  /\ UNCHANGED <<engine, adu, queue, rtu, cli, tid, stream, line, wire, cbs, tx,
                 hung, calls, frames, op>>

getNext ==
  /\ Len(sketch.yielded) < MaxYield
  /\ sketch' = [sketch EXCEPT !.yielded = Append(@, SlavesNextId(sketch.slaves)),
                              !.slaves = SlavesGetNext(@)]
  /\ UNCHANGED <<engine, adu, queue, rtu, cli, tid, stream, line, wire, cbs, tx,
                 hung, calls, frames, op>>

NextSlaves ==
  \/ set
  \/ getNext

SpecSlaves == InitSlaves /\ [][NextSlaves]_vars

---------------------------------------------------------------------------
(* Properties *)

\* the step is a call of a request function
Requested == op'.name # "step" /\ calls' = calls + 1

\* the function codes whose single-slave request refuses slave 0
ReadFunctions ==
  {MB_FC_READ_COILS, MB_FC_READ_DISCRETE_INPUTS, MB_FC_READ_HOLDING_REGISTERS,
   MB_FC_READ_INPUT_REGISTERS, MB_FC_READ_EXCEPTION_STATUS, MB_FC_READ_AND_WRITE_REGISTERS}

\* the call is refused by the slave-id guard of a single-slave request
GuardRefuses ==
  op'.target.single /\ op'.target.slave = 0 /\ ~isWriteFunction(op'.fn)

\* the callback saw exactly one PDU, a synthetic one carrying error e
OnlySynthetic(e) == cbs' = <<[id |-> 0, err |-> e, data |-> <<>>]>>

\* the data a callback finds for a conforming reply to the request in ADU a:
\* register values in host byte order, coil and status bytes as received
HostData(a) ==
  LET P == ResponsePDU(Take(a.pdu, a.txLen))
      fn == P[1]
      D == Drop(P, 2)
  IN IF fn \in {MB_FC_READ_COILS, MB_FC_READ_DISCRETE_INPUTS} THEN D
     ELSE IF fn \in {MB_FC_READ_HOLDING_REGISTERS, MB_FC_READ_INPUT_REGISTERS,
                     MB_FC_READ_AND_WRITE_REGISTERS}
       THEN [k \in 1..Len(D) |-> IF k % 2 = 1 THEN D[k + 1] ELSE D[k - 1]]
     ELSE IF fn = MB_FC_READ_EXCEPTION_STATUS THEN <<P[2]>>
     ELSE IF fn = MB_FC_DIAGNOSTICS THEN <<P[4], P[5]>>
     ELSE <<>>

\* the RTU engine is receiving for a single-slave request to slave s # 0, and
\* the bytes at the port complete the conforming reply of slave s
ValidReplyCompletes ==
  /\ engine = "RTU"
  /\ rtu.current # 0
  /\ rtu.state \in {MB_ASYNC_STATE_RECEIVE, MB_ASYNC_STATE_HEADCHEKD}
  /\ stream # <<>>
  /\ adu[rtu.current].slaves = NoSlaves
  /\ Len(adu[rtu.current].rx) + Len(stream) = getExpectedResponseLen(adu[rtu.current])
  /\ adu[rtu.current].rx \o stream = Reply(Written(adu[rtu.current]), "good")

C4_ReadOfSlaveZeroRefused ==
  [][(Requested /\ op'.target.single /\ op'.target.slave = 0 /\ op'.fn \in ReadFunctions)
       => /\ OnlySynthetic(MB_EX_LIB_INVALID_SLAVE)
          /\ adu' = adu
          /\ queue' = queue
          /\ tx' = <<>>
          /\ wire' = wire]_vars

\* a read/write-registers request to slave 0 has just been refused
C4_Witness ==
  /\ op.name = "readWriteMultipleRegisters"
  /\ op.target = One(0)
  /\ cbs = <<Synthetic(MB_EX_LIB_INVALID_SLAVE)>>
  /\ \A i \in ADUs : ~adu[i].used

\* every pooled ADU is in use
PoolExhausted == \A i \in ADUs : adu[i].used

\* C7 as stated: with every pooled ADU in use, the next request calls the
\* callback at once with NO_MORE_FREE_ADU on a synthetic PDU, no pooled ADU
\* changes and nothing is enqueued
C7_Original ==
  [][(Requested /\ PoolExhausted)
       => /\ OnlySynthetic(MB_EX_LIB_NO_MORE_FREE_ADU)
          /\ adu' = adu
          /\ queue' = queue]_vars

\* C7: with every pooled ADU in use, the next request that its slave-id
\* guard does not refuse calls the callback at once with NO_MORE_FREE_ADU on
\* a synthetic PDU, no pooled ADU changes and nothing is enqueued
C7_PoolExhausted ==
  [][(Requested /\ PoolExhausted /\ ~GuardRefuses)
       => /\ OnlySynthetic(MB_EX_LIB_NO_MORE_FREE_ADU)
          /\ adu' = adu
          /\ queue' = queue]_vars

\* a request found the pool exhausted and was answered NO_MORE_FREE_ADU
C7_Witness ==
  /\ op.name # "step"
  /\ PoolExhausted
  /\ cbs = <<Synthetic(MB_EX_LIB_NO_MORE_FREE_ADU)>>

\* C8: a request that reaches a pending queue of capacity N holding N entries
\* is refused: the queue is unchanged and the callback is called with
\* QUEUE_FULL
C8_QueueFullRefused ==
  [][(/\ Requested
      /\ engine = "TCP"
      /\ op'.target.slave = ClientId
      /\ ~GuardRefuses
      /\ ~PoolExhausted
      /\ queue.count = queue.size)
       => /\ queue' = queue
          /\ cbs' # <<>>
          /\ cbs'[1].id # 0
          /\ cbs'[1].err = MB_EX_LIB_QUEUE_FULL]_vars

\* a request has just been refused by a full queue
C8_Witness ==
  /\ engine = "TCP"
  /\ op.name # "step"
  /\ queue.count = queue.size
  /\ cbs # <<>>
  /\ cbs[1].err = MB_EX_LIB_QUEUE_FULL

\* the slave byte and the function code of a written frame
FrameSlave(f) == IF engine = "RTU" THEN f[1] ELSE f[7]
FrameFunction(f) == IF engine = "RTU" THEN f[2] ELSE f[8]

\* C1 as stated: a request issued for a slave set S puts frames on the wire
\* only for members of S
C1_Original ==
  \A k \in 1..Len(tx) :
    adu[tx[k].id].slaves.mask # {} => FrameSlave(tx[k].frame) \in adu[tx[k].id].slaves.mask

\* C3 as stated: every call of a request function returns
C3_Original == ~(hung /\ op.name # "step")

\* C5 as stated: no frame with function code 0x01, 0x02, 0x03, 0x04, 0x07,
\* 0x08 or 0x17 is written with slave byte 0
C5_Original ==
  \A k \in 1..Len(tx) :
    FrameFunction(tx[k].frame) \in ReadFunctions \cup {MB_FC_DIAGNOSTICS}
      => FrameSlave(tx[k].frame) # 0

\* the ADUs the engine still refers to: the pending queue, the current ADU
\* and the sent window
Referenced ==
  ({queue.items[k] : k \in 0..(queue.size - 1)}
     \cup {rtu.current, cli.current}
     \cup {cli.sent[k] : k \in DOMAIN cli.sent}) \ {0}

\* C6 as stated: whenever every call has returned, every ADU the engine
\* refers to is marked used
C6_Original == ~hung => \A i \in Referenced : adu[i].used

\* C9 as stated: the loop call that writes an RTU frame with slave byte 0
\* calls the callback with success and leaves the engine IDLE, never RECEIVE
C9_Original ==
  [][(engine = "RTU" /\ tx' # <<>> /\ FrameSlave(tx'[1].frame) = 0)
       => /\ cbs' # <<>>
          /\ cbs'[1].id = tx'[1].id
          /\ cbs'[1].err = MB_EX_SUCCESS
          /\ rtu'.state = MB_ASYNC_STATE_IDLE
          /\ rtu'.current = 0]_vars

\* C10 as stated, for RTU: the loop call that delivers an error to the
\* callback returns, leaving the engine with no current ADU and IDLE, or
\* waiting for the line to fall silent before it is IDLE
C10_Original ==
  [][(engine = "RTU" /\ op'.name = "step" /\ \E k \in 1..Len(cbs') : cbs'[k].err # MB_EX_SUCCESS)
       => /\ ~hung'
          /\ rtu'.current = 0
          /\ rtu'.state \in {MB_ASYNC_STATE_IDLE, MB_ASYNC_STATE_BUFFER_CLEAR}]_vars

\* the RTU engine has a current ADU whose frame was written and is receiving
Receiving ==
  /\ engine = "RTU"
  /\ rtu.current # 0
  /\ rtu.state \in {MB_ASYNC_STATE_RECEIVE, MB_ASYNC_STATE_HEADCHEKD}

\* the response as it stands once the bytes at the port are read
Response == adu[rtu.current].rx \o stream

\* the bytes at the port complete a five-byte response from the addressed
\* slave whose second byte is the request function code with bit 7 set and
\* whose CRC is valid
ExceptionReplyCompletes ==
  /\ Receiving
  /\ stream # <<>>
  /\ Len(Response) = 5
  /\ Response[1] = At(adu[rtu.current].frame, 0)
  /\ Response[2] = At(adu[rtu.current].frame, 1) + 128
  /\ crc16Check(Response)

\* C11 as stated: the loop call that reads the fifth byte of an RTU
\* exception response with a valid CRC hands the callback the exception code
\* of the third byte as the error
C11_Original ==
  [][(ExceptionReplyCompletes /\ RtuLoop)
       => /\ cbs' # <<>>
          /\ cbs'[1].id = rtu.current
          /\ cbs'[1].err = Response[3]]_vars

\* the bytes at the port complete a response of the expected length from the
\* addressed slave whose trailing CRC is not the CRC of the bytes before it
BadCrcCompletes ==
  /\ Receiving
  /\ stream # <<>>
  /\ Len(Response) = getExpectedResponseLen(adu[rtu.current])
  /\ Response[1] = At(adu[rtu.current].frame, 0)
  /\ ~crc16Check(Response)

\* C12: the loop call that completes an RTU response whose CRC is wrong
\* hands the callback the error CRC, and nothing of the frame is reported as
\* a success
C12_CrcMismatchReported ==
  [][(BadCrcCompletes /\ RtuLoop)
       => /\ cbs' # <<>>
          /\ cbs'[1].id = rtu.current
          /\ cbs'[1].err = MB_EX_LIB_CRC
          /\ \A k \in 1..Len(cbs') : cbs'[k].err # MB_EX_SUCCESS]_vars

\* a response with a wrong CRC has just been reported, the line being silent
C12_Witness ==
  /\ engine = "RTU"
  /\ op.name = "step"
  /\ cbs # <<>>
  /\ cbs[1].err = MB_EX_LIB_CRC
  /\ rtu.state = MB_ASYNC_STATE_IDLE
  /\ rtu.current = 0

\* nothing has been received since the frame was written, and the response
\* timeout has passed
NoByteInTime ==
  /\ Receiving
  /\ rtu.state = MB_ASYNC_STATE_RECEIVE
  /\ stream = <<>>
  /\ adu[rtu.current].rx = <<>>
  /\ now - rtu.lastByteTime >= ResponseTimeout

\* reception has started, the response is short of the expected length and
\* the line has been silent for the byte timeout
SilentMidFrame ==
  /\ Receiving
  /\ stream = <<>>
  /\ adu[rtu.current].rx # <<>>
  /\ Len(adu[rtu.current].rx) < getExpectedResponseLen(adu[rtu.current])
  /\ ~(rtu.errorReceive /\ Len(adu[rtu.current].rx) = 5)
  /\ now - rtu.lastByteTime >= ByteTimeout

\* C13 as stated: after a non-broadcast RTU frame is written, a loop call
\* made when no byte has arrived within the response timeout, or when
\* reception has started and the line has then been silent for the byte
\* timeout, returns having handed the callback RESPONSE_TIMEOUT, and no
\* current ADU remains
C13_Original ==
  [][((NoByteInTime \/ SilentMidFrame) /\ RtuLoop)
       => /\ cbs' # <<>>
          /\ cbs'[1].id = rtu.current
          /\ cbs'[1].err = MB_EX_LIB_RESPONSE_TIMEOUT
          /\ ~hung'
          /\ rtu'.current = 0]_vars

\* the ADUs written to the socket whose transaction the client still holds:
\* the current ADU and the sent window
Outstanding == ({cli.current} \cup {cli.sent[k] : k \in DOMAIN cli.sent}) \ {0}

\* a loop call finds what completes the current ADU: a response header or the
\* awaited body in the socket buffer, or the response timeout passed
CompletionDue ==
  \/ cli.incomingByte = 0 /\ Len(stream) >= MB_ADU_MBAP_LEN
  \/ cli.incomingByte # 0 /\ Len(stream) >= cli.incomingByte
  \/ now - adu[cli.current].sentTime >= TcpResponseTimeout

\* C14: in single-in-flight TCP mode at most one written request is
\* outstanding; a frame is written only by a loop call that starts with none
\* outstanding, one frame per call, and the current ADU is given up only by
\* a loop call that processes a response or an MBAP error or finds the
\* response timeout passed
C14_SingleInFlight ==
  [][(engine = "TCP" /\ ~cli.allAtOnce)
       => /\ Cardinality(Outstanding') <= 1
          /\ (tx' # <<>> => Outstanding = {} /\ Len(tx') = 1)
          /\ (cli.current # 0 /\ cli'.current # cli.current
                => op' = NoRequest /\ cli'.current = 0 /\ CompletionDue)]_vars

\* in single-in-flight mode the second request has just been written, the
\* first having completed
C14_Witness ==
  /\ engine = "TCP"
  /\ ~cli.allAtOnce
  /\ frames = 2
  /\ tx # <<>>
  /\ cli.current = tx[1].id

\* C16 as stated: in pipelined TCP mode the written requests that have not
\* completed never outnumber the slots of the sent window
C16_Original ==
  (engine = "TCP" /\ cli.allAtOnce /\ ~hung)
    => Cardinality(Outstanding) <= Cardinality(DOMAIN cli.sent)

\* the loop call gives up in its send stage: more ADUs are ready than the
\* sent window has free slots
SendStageAborts ==
  /\ cli.allAtOnce
  /\ Cardinality({k \in 1..queue.count : QueueReadyAt(adu, queue, QueueScan(queue)[k])})
       > Cardinality({k \in DOMAIN cli.sent : cli.sent[k] = 0})

\* the ADU the MBAP header at the front of the socket buffer is taken for:
\* the current ADU, or in pipelined mode the ADU of the sent window that
\* carries the header's transaction id; 0 for none
HeaderADU ==
  IF ~cli.allAtOnce THEN cli.current
  ELSE IF \E k \in DOMAIN cli.sent :
            cli.sent[k] # 0 /\ adu[cli.sent[k]].frame[1] = stream[1]
                            /\ adu[cli.sent[k]].frame[2] = stream[2]
    THEN cli.sent[Min({k \in DOMAIN cli.sent :
                         cli.sent[k] # 0 /\ adu[cli.sent[k]].frame[1] = stream[1]
                                         /\ adu[cli.sent[k]].frame[2] = stream[2]})]
  ELSE 0

\* the error the claim names for the header against the request frame f
MbapFault(f) ==
  IF stream[1] # f[1] \/ stream[2] # f[2] THEN MB_EX_LIB_INVALID_MBAP_TRANSACTION_ID
  ELSE IF stream[3] # 0 \/ stream[4] # 0 THEN MB_EX_LIB_INVALID_MBAP_PROTOCOL_ID
  ELSE IF stream[7] # f[7] THEN MB_EX_LIB_INVALID_MBAP_UNIT_ID
  ELSE MB_EX_SUCCESS

\* a loop call reads a response header that does not fit its request
BadHeaderRead ==
  /\ engine = "TCP"
  /\ cli.incomingByte = 0
  /\ Len(stream) >= MB_ADU_MBAP_LEN
  /\ ~SendStageAborts
  /\ HeaderADU # 0
  /\ MbapFault(adu[HeaderADU].frame) # MB_EX_SUCCESS

\* C18 as stated: the loop call that reads an MBAP header with a protocol id
\* other than 0, a unit id other than the request's slave or, in
\* single-in-flight mode, a transaction id other than the request's, hands
\* the callback the matching INVALID_MBAP error, drains the socket buffer and
\* releases the transaction
C18_Original ==
  [][(BadHeaderRead /\ TcpLoop)
       => /\ cbs' # <<>>
          /\ cbs'[1].id = HeaderADU
          /\ cbs'[1].err = MbapFault(adu[HeaderADU].frame)
          /\ stream' = <<>>
          /\ HeaderADU \notin Outstanding']_vars

\* the members of a set of ids, in increasing order
RECURSIVE Ascending(_)
Ascending(S) == IF S = {} THEN <<>> ELSE <<Min(S)>> \o Ascending(S \ {Min(S)})

\* what the k-th getNext() from a fresh cursor is to return for the ids S
KthOf(S, repeat, k) ==
  IF S = {} THEN SLAVE_EOF
  ELSE IF k <= Cardinality(S) THEN Ascending(S)[k]
  ELSE IF repeat THEN Ascending(S)[((k - 1) % Cardinality(S)) + 1]
  ELSE SLAVE_EOF

C20_Original ==
  \A k \in 1..Len(tx) :
    0 \in adu[tx[k].id].slaves.mask
      => FrameSlave(tx[k].frame) \notin adu[tx[k].id].slaves.mask \ {0}

\* loop() in pipelined mode reads the MBAP header of a response to a request
\* of the sent window: its transaction id, protocol id and unit id are the
\* request's
HeaderRead ==
  /\ engine = "TCP"
  /\ cli.allAtOnce
  /\ cli.incomingByte = 0
  /\ Len(stream) >= MB_ADU_MBAP_LEN
  /\ ~SendStageAborts
  /\ HeaderADU # 0
  /\ MbapFault(adu[HeaderADU].frame) = MB_EX_SUCCESS

\* the PDU the header announces is not empty and has arrived with it
WholeResponse ==
  /\ stream[5] * 256 + stream[6] > 1
  /\ Len(stream) >= MB_ADU_MBAP_LEN + stream[5] * 256 + stream[6] - 1

\* loop() in pipelined mode finds the awaited PDU arrived
BodyDue ==
  /\ engine = "TCP"
  /\ cli.allAtOnce
  /\ cli.incomingByte # 0
  /\ Len(stream) >= cli.incomingByte
  /\ ~SendStageAborts

\* the error code a response PDU makes the callback see
Outcome(p) == IF p[1] >= 128 THEN p[2] ELSE MB_EX_SUCCESS

\* C15: in pipelined TCP mode the response at the front of the socket buffer
\* is handed to the ADU of the sent window whose request carries the
\* response's transaction id, whatever the order of the requests: the first
\* callback of the loop call that has the whole response is for that ADU and
\* carries the response's outcome, and every other callback of that call is
\* a timeout; so callbacks fire in the order the responses arrive
C15_MatchedByTransactionId ==
  [][/\ (HeaderRead /\ WholeResponse /\ TcpLoop)
          => /\ cbs' # <<>>
             /\ cbs'[1].id = HeaderADU
             /\ cbs'[1].err = Outcome(Drop(stream, MB_ADU_MBAP_LEN))
             /\ \A k \in 2..Len(cbs') : cbs'[k].err = MB_EX_LIB_RESPONSE_TIMEOUT
     /\ (HeaderRead /\ ~WholeResponse /\ TcpLoop)
          => /\ \A k \in 1..Len(cbs') : cbs'[k].err = MB_EX_LIB_RESPONSE_TIMEOUT
             /\ cli'.current = HeaderADU \/ \E k \in 1..Len(cbs') : cbs'[k].id = HeaderADU
     /\ (BodyDue /\ TcpLoop)
          => /\ cbs' # <<>>
             /\ cbs'[1].id = cli.current
             /\ cbs'[1].err = Outcome(stream)
             /\ \A k \in 2..Len(cbs') : cbs'[k].err = MB_EX_LIB_RESPONSE_TIMEOUT]_vars

\* two requests are written, the second is answered first: its callback has
\* fired with success while the first is still in the sent window
C15_Witness ==
  /\ engine = "TCP"
  /\ cli.allAtOnce
  /\ op.name = "step"
  /\ cbs # <<>>
  /\ cbs[1].err = MB_EX_SUCCESS
  /\ \E k \in DOMAIN cli.sent :
       /\ cli.sent[k] # 0
       /\ cli.sent[k] # cbs[1].id
       /\ getTransactionId(adu[cli.sent[k]]) < getTransactionId(adu[cbs[1].id])

\* ADU i holds a request that was written to the socket and has not been
\* released
Transmitted(i) ==
  /\ adu[i].used
  /\ \A k \in 1..queue.count : queue.items[QueueScan(queue)[k]] # i

\* C17 as stated: in both TCP modes every request that was written to the
\* socket is eventually released, by its response or by the response
\* timeout; none stays outstanding forever
C17_Original ==
  \A i \in 1..ADUPoolSize : (engine = "TCP" /\ Transmitted(i)) ~> ~adu[i].used

\* the ADUs waiting in the pending queue
Pending == {queue.items[QueueScan(queue)[k]] : k \in 1..queue.count} \ {0}

\* _queuedTime of ADU i was set when it was queued: repeatIfNeeded queued it,
\* having advanced the cursor of its set
Stamped(i) == adu[i].slaves.active # SLAVE_BOF

\* for how long ADU i has been ready: the time since it was queued, less its
\* delay; negative while it is not ready.  The time since it was queued is
\* known up to `now`, and is at least that for a timestamp of 0
ReadyFor(i) == (now - adu[i].queuedTime) - adu[i].delayToSend

\* ADU a became ready strictly before ADU b, both for the same slave
ReadyBefore(a, b) ==
  /\ a # b
  /\ adu[a].frame[7] = adu[b].frame[7]
  /\ Stamped(a)
  /\ adu[b].queuedTime > 0
  /\ ReadyFor(b) >= 0
  /\ ReadyFor(a) > ReadyFor(b)

\* C21 as stated: of two requests for the same slave waiting in the pending
\* queue, the one that became ready strictly before the other is written
\* before it
C21_Original ==
  [][engine = "TCP"
       => \A a \in Pending : \A b \in Pending :
            \A k \in 1..Len(tx') :
              (ReadyBefore(a, b) /\ tx'[k].id = b)
                => \E j \in 1..(k - 1) : tx'[j].id = a]_vars

\* a request call finds a free ADU and room in the pending queue
Admitted == engine = "TCP" /\ FreeADUs # {} /\ queue.count < queue.size

\* the call has queued its ADU unseen by the callback, the register count in
\* its frame being regs
QueuedWith(regs) ==
  /\ cbs' = <<>>
  /\ queue'.count = queue.count + 1
  /\ queue'.items[queue.tail] = Min(FreeADUs)
  /\ adu'[Min(FreeADUs)].used
  /\ adu'[Min(FreeADUs)].frame[11] * 256 + adu'[Min(FreeADUs)].frame[12] = regs

\* the call has handed the callback error e and queued nothing
RefusedWith(e) ==
  /\ Len(cbs') = 1
  /\ cbs'[1].err = e
  /\ queue' = queue
  /\ ~adu'[Min(FreeADUs)].used

\* C22 as stated: writeHoldingRegisters builds and queues the request when
\* its payload is 1..123 registers, and for every larger element count hands
\* the callback TOO_MANY_DATA and queues nothing
C22_Original ==
  [][\A n \in SrcCounts : \A size \in Sizes :
       (op'.name = "writeHoldingRegisters" /\ Admitted
          /\ writeHoldingRegisters(Station, n, size))
         => IF n * toRegisterCount(size) <= MB_MAX_WRITE_REGISTERS
              THEN QueuedWith(n * toRegisterCount(size))
            ELSE RefusedWith(MB_EX_LIB_TOO_MANY_DATA)]_vars

\* C23 as stated: a read of c elements of r registers each is built when
\* 1 <= c*r <= 125, with c*r as the register count on the wire; it is not
\* built for c = 0, and for c*r > 125 the callback is handed TOO_MANY_DATA
C23_Original ==
  [][\A c \in Counts : \A size \in Sizes :
       (op'.name \in {"readHoldingRegisters", "readInputRegisters"} /\ Admitted
          /\ \/ readHoldingRegistersTyped(Station, c, size)
             \/ readInputRegistersTyped(Station, c, size))
         => IF c = 0 THEN RefusedWith(MB_EX_LIB_TOO_FEW_DATA)
            ELSE IF c * toRegisterCount(size) <= MB_MAX_READ_REGISTERS
              THEN QueuedWith(c * toRegisterCount(size))
            ELSE RefusedWith(MB_EX_LIB_TOO_MANY_DATA)]_vars

\* C24 as stated: unpacking the packed registers gives the array back, on a
\* host of either byte order, and the packed length is c * ((s + 1) & ~1)
C24_Original ==
  /\ sketch.stage = "packed"
       => Len(sketch.buffer) = Len(sketch.x) * (2 * ((sketch.size + 1) \div 2))
  /\ sketch.stage = "unpacked"
       => sketch.buffer = HostMemory(sketch.x, sketch.size, sketch.isBigEndian)

\* C25 as stated: the packed bytes of an array of numbers are those a host of
\* the other byte order packs for the same numbers
C25_Original ==
  sketch.stage = "packed"
    => sketch.buffer
         = convertToBigEndianRegistersOn(
             HostMemory(sketch.x, sketch.size, ~sketch.isBigEndian),
             Len(sketch.x), sketch.size, PDUSize, ~sketch.isBigEndian).dest


\* the loop call reports the response timeout for ADU i
TimedOutBy(i) ==
  \E k \in DOMAIN cbs' : cbs'[k].id = i /\ cbs'[k].err = MB_EX_LIB_RESPONSE_TIMEOUT

\* C26 as stated: after setResponseTimeout(t) on the TCP client a written
\* request that gets no response is failed with RESPONSE_TIMEOUT by the loop
\* call that finds t passed since it was sent, and by no loop call before
\* (a loop call with nothing to send and nothing to read)
C26_Original ==
  [][\A i \in 1..ADUPoolSize :
       (/\ i \in Outstanding
        /\ stream = <<>>
        /\ cli.incomingByte = 0
        /\ queue.count = 0
        /\ sketch.responseTimeout \in Timeouts
        /\ TcpLoop)
         => (TimedOutBy(i) <=> now - adu[i].sentTime >= sketch.responseTimeout)]_vars


\* C27 as stated: whenever the RTU engine writes a frame, at least the frame
\* timeout has passed since the last byte on the line, sent or received
C27_Original ==
  [][(RtuLoop /\ tx' # <<>>) => now - sketch.wireTime >= FrameTimeout]_vars


\* a loop call finds the response of the current ADU malformed: the slave id
\* is not the addressed one or the CRC does not match
FramingFailure ==
  /\ RtuLoop
  /\ rtu.current # 0
  /\ cbs' # <<>>
  /\ cbs'[1].err \in {MB_EX_LIB_INVALID_SLAVE, MB_EX_LIB_CRC}

\* the engine has read or written the byte that was last on the line
SeenByEngine == sketch.wireTime <= rtu.lastByteTime

\* C28 as stated: a loop call that finds a framing failure puts the engine
\* into BUFFER_CLEAR, and the engine leaves BUFFER_CLEAR for IDLE only when
\* a frame timeout has passed without a byte on the line
C28_Original ==
  [][/\ FramingFailure => rtu'.state = MB_ASYNC_STATE_BUFFER_CLEAR
     /\ (/\ RtuLoop
         /\ SeenByEngine
         /\ rtu.state = MB_ASYNC_STATE_BUFFER_CLEAR
         /\ rtu'.state = MB_ASYNC_STATE_IDLE)
          => now - sketch.wireTime >= FrameTimeout]_vars


\* C29 as stated: the bytes that were in the port while the engine was IDLE
\* are never read into the receive buffer of the request written after them:
\* when a loop call reads the port for the current ADU, no byte is left in it
\* from before the request was written
C29_Original ==
  [][(/\ RtuLoop
      /\ rtu.state \in {MB_ASYNC_STATE_RECEIVE, MB_ASYNC_STATE_HEADCHEKD}
      /\ stream # <<>>)
       => sketch.stale = 0]_vars


\* the ADU whose callback a loop call runs first
Served == cbs'[1].id

\* a loop call runs the callback of an ADU that carries a slave set
SetCallback ==
  /\ op' = NoRequest
  /\ cbs' # <<>>
  /\ Served # 0
  /\ adu[Served].used
  /\ SlavesValid(adu[Served].slaves)

\* the ADU is in the pending queue, addressed to slave id next
Requeued(i, next) ==
  /\ adu'[i].used
  /\ \E k \in 1..queue'.count : queue'.items[QueueScan(queue')[k]] = i
  /\ getSlaveId(adu'[i]) = next
  /\ adu'[i].slaves.active = next
  /\ adu'[i].queuedTime = now

\* C30 as stated: after the callback of an ADU with a slave set the ADU is
\* queued again for the next id of the set, with the repeat delay when that id
\* is not above the id just served and with the delay between slaves
\* otherwise; at the end of the set the ADU is free and not queued
C30_Original ==
  [][SetCallback
       => LET i == Served
              s == adu[i].slaves
              prev == getSlaveId(adu[i])
              next == SlavesNextId(s)
          IN IF next # SLAVE_EOF /\ next # SLAVE_NULL
               THEN /\ Requeued(i, next)
                    /\ adu'[i].delayToSend =
                         ToUint32(IF next <= prev THEN s.repeatDelay ELSE s.delay)
             ELSE /\ ~adu'[i].used
                  /\ \A k \in 1..queue'.count : queue'.items[QueueScan(queue')[k]] # i]_vars


\* how often ADU i is in the live segment of queue q
Count(q, i) == Cardinality({k \in 1..q.count : q.items[QueueScan(q)[k]] = i})

\* the queued ADUs whose delay has passed
ReadyItems ==
  {i \in DOMAIN adu : Count(queue, i) > 0 /\ on_ms(adu[i].queuedTime, adu[i].delayToSend)}

\* C31: readReady returns a queued ADU whose delay has passed and whose delay
\* is the smallest among those, and takes one entry of that ADU out of the
\* queue, every other entry staying; when no queued ADU is ready it returns
\* false and leaves the queue as it is
C31_ReadReady ==
  [][(sketch'.call = "readReady" /\ readReady)
       => IF ReadyItems # {}
            THEN /\ sketch'.ok
                 /\ sketch'.item \in ReadyItems
                 /\ \A j \in ReadyItems :
                      adu[sketch'.item].delayToSend <= adu[j].delayToSend
                 /\ queue'.count = queue.count - 1
                 /\ \A j \in DOMAIN adu :
                      Count(queue', j) = Count(queue, j) - (IF j = sketch'.item THEN 1 ELSE 0)
          ELSE /\ ~sketch'.ok
               /\ queue' = queue]_vars

\* readReady has returned an ADU that was not at the head, and left a ready
\* ADU with a larger delay and an ADU that is not ready in the queue
C31_Witness ==
  /\ sketch.call = "readReady"
  /\ sketch.ok
  /\ queue.count = 2
  /\ \E j \in ReadyItems : adu[j].delayToSend > adu[sketch.item].delayToSend
  /\ \E j \in DOMAIN adu : Count(queue, j) > 0 /\ j \notin ReadyItems
  /\ queue.items[queue.head] # 0


\* C32 as stated, for the builder of function 0x17: a request whose expected
\* response, 2 + readCount * sizeof(READ_T) bytes, is longer than the PDU
\* size is refused with BUFFER_IS_TOO_SMALL and not queued
C32_Original ==
  [][\A c \in ReadCounts : \A size \in ReadSizes :
       (/\ op'.name = "readWriteMultipleRegisters"
        /\ Admitted
        /\ readWriteMultipleRegistersTyped(Station, c, size)
        /\ c \in 1..MB_MAX_READ_REGISTERS
        /\ 2 + c * size > PDUSize)
         => RefusedWith(MB_EX_LIB_BUFFER_IS_TOO_SMALL)]_vars


\* the host bytes of the c elements of size bytes that the slave's registers
\* hold: each element's registers with their bytes in host order, the padding
\* byte of an odd size dropped
Held(c, size) ==
  LET paddedSize == 2 * toRegisterCount(size)
  IN [k \in 1..(c * size) |->
        LET i == (k - 1) \div size
            j == (k - 1) % size
        IN DataByte(i * paddedSize + (IF j % 2 = 0 THEN j + 1 ELSE j - 1) + 1)]

\* the callback k of a step reports success for a typed read of c elements
TypedRead(k, c, size) ==
  /\ k \in 1..Len(cbs')
  /\ cbs'[k].err = MB_EX_SUCCESS
  /\ adu[cbs'[k].id].elemSize = size
  /\ adu[cbs'[k].id].pdu = <<MB_FC_READ_HOLDING_REGISTERS, 0, 0, 0, c * toRegisterCount(size)>>

\* C33: a validated typed register read of c elements of size s reports a
\* data length of c * s and the elements the slave holds, padding removed
C33_Original ==
  [][\A c \in TypedCounts : \A size \in TypedSizes : \A k \in 1..ADUPoolSize :
       TypedRead(k, c, size) =>
         /\ Len(cbs'[k].data) = c * size
         /\ cbs'[k].data = Held(c, size)]_vars

\* the callbacks a step ran for ADU i
CallbacksOf(i) == {k \in 1..Len(cbs') : cbs'[k].id = i}

\* a loop call ends the transmission of the current ADU
EndsTransmission ==
  /\ RtuLoop
  /\ rtu.current # 0
  /\ rtu'.current # rtu.current

\* C34: the user callback runs exactly once per transmission of a request,
\* whatever the outcome: the loop call that ends the transmission of the
\* current ADU runs that ADU's callback once
C34_Original ==
  [][EndsTransmission => Cardinality(CallbacksOf(rtu.current)) = 1]_vars


\* how often ADU i is referenced by its transport: the slots of the pending
\* queue, the current-ADU slot and the sent window
References(i) ==
  Count(queue, i)
  + (IF engine = "RTU" /\ rtu.current = i THEN 1 ELSE 0)
  + (IF engine = "TCP" /\ cli.current = i THEN 1 ELSE 0)
  + (IF engine = "TCP" THEN Cardinality({k \in DOMAIN cli.sent : cli.sent[k] = i}) ELSE 0)

\* C35: an ADU is referenced at most once across the pending queue, the
\* current-ADU slot and the sent window
C35_Original == \A i \in ADUs : References(i) <= 1


\* the RTU engine is receiving for a slave visit of an ADU that repeats over
\* a slave set, and the bytes at the port complete the conforming reply of
\* the visited slave
VisitReplyCompletes ==
  /\ Receiving
  /\ stream # <<>>
  /\ adu[rtu.current].used
  /\ SlavesValid(adu[rtu.current].slaves)
  /\ Len(Response) = getExpectedResponseLen(adu[rtu.current])
  /\ Response = Reply(Written(adu[rtu.current]), "good")

\* C36: the result reported for a slave visit of a repeating ADU depends only
\* on that visit's response: the loop call that completes a valid response
\* reports success, whatever an earlier visit reported
C36_Original ==
  [][(VisitReplyCompletes /\ RtuLoop)
       => /\ cbs' # <<>>
          /\ cbs'[1].id = rtu.current
          /\ cbs'[1].err = MB_EX_SUCCESS]_vars


\* the capacity of an ADU's receive buffer: ADURTU::init and ADUTCP::init
RxCapacity ==
  IF engine = "RTU" THEN MB_ADU_RTU_HEADER_LEN + PDUSize + MB_ADU_RTU_CRC_LEN
  ELSE MB_ADU_MBAP_LEN + PDUSize

\* C37: the bytes an engine stores into an ADU's receive buffer never exceed
\* the buffer's capacity, whatever the slave sends
C37_Original == \A i \in ADUs : Len(adu[i].rx) <= RxCapacity


\* a loop call finds at the front of the socket buffer a whole response to
\* the request of an ADU it awaits, whose function byte is the request's
\* function code with bit 7 set
ExceptionArrived ==
  /\ engine = "TCP"
  /\ cli.incomingByte = 0
  /\ Len(stream) >= MB_ADU_MBAP_LEN + 2
  /\ ~SendStageAborts
  /\ HeaderADU # 0
  /\ adu[HeaderADU].used
  /\ MbapFault(adu[HeaderADU].frame) = MB_EX_SUCCESS
  /\ WholeResponse
  /\ stream[MB_ADU_MBAP_LEN + 1] = adu[HeaderADU].pdu[1] + 128

\* C38: a response whose function byte is the request function code with bit
\* 7 set is never reported as success: the callback receives a non-zero
\* error, whatever the exception code byte
C38_Original ==
  [][(ExceptionArrived /\ TcpLoop)
       => /\ cbs' # <<>>
          /\ cbs'[1].id = HeaderADU
          /\ cbs'[1].err # MB_EX_SUCCESS]_vars


\* the slots of the pending queue that hold its count entries, from the head
Live == {QueueScan(queue)[k] : k \in 1..queue.count}

\* C39: after any sequence of add, read and readReady on a pending queue of
\* capacity N, 0 <= count <= N, tail = (head + count) mod N, the count slots
\* from the head hold ADUs and every other slot is null
C39_RingShape ==
  /\ queue.count \in 0..queue.size
  /\ queue.tail = (queue.head + queue.count) % queue.size
  /\ Cardinality(Live) = queue.count
  /\ \A pos \in 0..(queue.size - 1) : queue.items[pos] # 0 <=> pos \in Live

\* a readReady has taken an ADU out of a queue whose entries wrap around the
\* end of the ring, and left entries behind
C39_Witness ==
  /\ sketch = Called("readReady", TRUE, sketch.item)
  /\ queue.count > 0
  /\ queue.tail < queue.head


\* the read register quantity in the request frame the call has queued
ReadQuantity ==
  adu'[Min(FreeADUs)].frame[11] * 256 + adu'[Min(FreeADUs)].frame[12]

\* C40: for a read/write-multiple-registers request built for read elements
\* of any size, the expected response byte count stored for validation is 2
\* times the read register quantity written in the request, and it and the
\* expected response length are stored untruncated
C40_Original ==
  [][\A c \in ReadCounts : \A size \in ReadSizes :
       (/\ op'.name = "readWriteMultipleRegisters"
        /\ Admitted
        /\ readWriteMultipleRegistersTyped(Station, c, size)
        /\ cbs' = <<>>
        /\ queue'.count = queue.count + 1)
         => /\ adu'[Min(FreeADUs)].head[2] = 2 * ReadQuantity
            /\ adu'[Min(FreeADUs)].expLen = 2 + 2 * ReadQuantity]_vars

=========================================================================
